---- MODULE Spec2Model ----
(***************************************************************************)
(* Model of the home-hub-controller head-end: the live analysis cache      *)
(* (tsanalyzeService), the systemd service controller and its bulk route   *)
(* (systemdService / routes/services), and the configuration editor's      *)
(* validate -> save -> restart flow (ConfigEditor / realApi / mockApi).     *)
(*                                                                         *)
(* Every asynchronous function is cut at its awaits: one action per        *)
(* stretch of code that runs without yielding to the event loop.           *)
(***************************************************************************)
EXTENDS Integers, Sequences, FiniteSets, TLC

(***************************************************************************)
(* Bounds of the model.                                                    *)
(***************************************************************************)
\* number of configured channels (config.channelCount, 9 by default)
ChannelCount == 2
\* number of analyzeChannel requests that may be in flight at once
NumCallers == 2
\* the clock runs from 0 to MaxTicks * TickMs
MaxTicks == 2
\* longest channelIds array in the body of a bulk request
MaxRequested == 2
\* the number of channels whose analysis is requested
AnalyzedCount == 1
\* the longest pids array tsanalyze reports
MaxPids == 2

(***************************************************************************)
(* Program constants.                                                      *)
(***************************************************************************)
channelStart == 5001
CACHE_TTL_MS == 2000
\* granularity of the modelled clock: half the TTL, in milliseconds
TickMs == CACHE_TTL_MS \div 2

\* getChannelIds(): channelStart .. channelStart + channelCount - 1
getChannelIds == [i \in 1..ChannelCount |-> channelStart + (i - 1)]

Channels == {getChannelIds[i] : i \in 1..ChannelCount}

\* the channels the analysis routes are called for
Analyzed == {getChannelIds[i] : i \in 1..AnalyzedCount}

(***************************************************************************)
(* State.                                                                  *)
(***************************************************************************)
VARIABLES
  now,            \* Date.now(), in milliseconds
  fifo,           \* fifo[c]: the channel's FIFO exists and is readable
  analysisCache,  \* the module-level Map: channel -> None or {timestamp, data}
  checking,       \* checking[c]: invocations for c awaiting checkFifoExists
  analyzing,      \* analyzing[c]: invocations for c awaiting the analyzer process
  raced,          \* raced[c]: invocations for c that missed the cache overlapped
  returned,       \* what the step just taken returned to its caller, if it returned
  ended,          \* how the analyzer process ended, if the step just taken was its end
  sampling,       \* sampling[c]: getChannelBitrate calls for c awaiting tsbitrate
  measured        \* what getChannelBitrate returned, if the step just taken was its return

cacheVars ==
  <<now, fifo, analysisCache, checking, analyzing, raced, returned, ended,
    sampling, measured>>

VARIABLES
  req,            \* the request being served by the service layer
  tasks,          \* tasks[i]: the i-th controlService / getServiceStatus call of req
  commands,       \* the systemctl commands issued for req
  probed,         \* what getServiceStatus returned, if the step just taken was its return
  response        \* the HTTP response to req

svcVars == <<req, tasks, commands, probed, response>>

VARIABLES
  channelId,      \* the channel the configuration editor is open on (0: closed)
  config,         \* the editor's config state
  hasChanges,     \* the editor's hasChanges state
  validated,      \* what validate returned and handed to setErrors, if the step just taken ran it
  flow,           \* the handleSave / handleApply call in progress (isSaving)
  calls,          \* the API calls of the flow in progress or just ended
  applied         \* what api.applyConfig / api.saveConfig returned, if the step just taken was its return

editorVars == <<channelId, config, hasChanges, validated, flow, calls, applied>>

VARIABLES
  jsonOutput,     \* what tsanalyze printed, as parseTsAnalyzeOutput receives it
  analysis,       \* what parseTsAnalyzeOutput returned
  table           \* the rows PidTable renders for the analysis

parseVars == <<jsonOutput, analysis, table>>

VARIABLES
  summary         \* summary[c]: the callback of GET /api/analyze for channel c

summaryVars == <<summary>>

VARIABLES
  store,          \* the channels of channels.json, as loadChannels returns them
  deleting,       \* deleting[c]: the DELETE /api/channels/c awaiting the stop of its services
  storeResponse   \* the response of the channels route that answered in the step just taken

storeVars == <<store, deleting, storeResponse>>

VARIABLES
  iloConfig,      \* the in-memory iLO credentials of server.js
  iloStored,      \* the credentials last stored through the environment or POST /api/ilo/credentials
  iloTest,        \* the POST /api/ilo/test awaiting its iloRequest
  iloStatus,      \* the GET /api/ilo/status awaiting its iloRequests
  iloSeen,        \* the credentials a request other than the test read in the step just taken
  iloResponse     \* the response of the iLO route that answered in the step just taken

iloVars == <<iloConfig, iloStored, iloTest, iloStatus, iloSeen, iloResponse>>

VARIABLES
  hookChannel,    \* the channelId useStreamAnalysis was last rendered with (0: null)
  hookAnalysis,   \* its analysis state: none, or the analysis of the channel it was fetched for
  hookLoading,    \* its isLoading state
  hookError,      \* its error state
  hookInterval,   \* the channel the fetchAnalysis of the running interval polls (0: no interval)
  hookFetches     \* hookFetches[c]: the api.getStreamAnalysis(c) calls awaiting their response

hookVars ==
  <<hookChannel, hookAnalysis, hookLoading, hookError, hookInterval, hookFetches>>

vars == <<cacheVars, svcVars, editorVars, parseVars, summaryVars, storeVars, iloVars, hookVars>>

(***************************************************************************)
(* tsanalyzeService: the analysis cache and analyzeChannel.                *)
(***************************************************************************)
\* a value returned by analyzeChannel: `at` is its timestamp
NoResult == [available |-> FALSE, error |-> "", at |-> 0]

\* analysisCache.get(cacheKey) of a key that was never set
NoEntry == [present |-> FALSE, timestamp |-> 0, data |-> NoResult]

\* the step just taken was not a return of analyzeChannel
NoReturn == [chan |-> 0, missed |-> FALSE, invoked |-> FALSE, result |-> NoResult]

\* analyzeChannel(c) returns `result`; missed: after a cache miss; invoked:
\* after running the analyzer
Return(c, missed, invoked, result) ==
  [chan |-> c, missed |-> missed, invoked |-> invoked, result |-> result]

\* the ways the `timeout 3 tsanalyze --json ...` child process can end:
\* well-formed JSON, output that JSON.parse rejects, exit 0 with no output,
\* killed / exit code 124, any other failure
ExecOutcomes == {"json", "garbage", "empty", "timeout", "failed"}

\* the { available: false, error, timestamp } object literals
Unavailable(msg) == [available |-> FALSE, error |-> msg, at |-> now]

\* `cached && Date.now() - cached.timestamp < CACHE_TTL_MS`
CacheFresh(cached) == cached.present /\ now - cached.timestamp < CACHE_TTL_MS

RECURSIVE SumOver(_, _)
SumOver(f, S) ==
  IF S = {} THEN 0
  ELSE LET x == CHOOSE y \in S : TRUE IN f[x] + SumOver(f, S \ {x})

\* the number of invocations for channel c that have started and not returned
InFlight(c) == checking[c] + analyzing[c]

\* the getChannelBitrate calls of the summary route that have not returned
SummaryInFlight == Cardinality({c \in Channels : summary[c].stage = "sampling"})

TotalInFlight ==
  SumOver(checking, Analyzed) + SumOver(analyzing, Analyzed)
    + SumOver(sampling, Analyzed) + SummaryInFlight

\* the analyzer process did not end in the step just taken
NotEnded == ""
\* getChannelBitrate returns null
NoData == [present |-> FALSE, bps |-> 0, mbps |-> 0, at |-> 0]

\* the step just taken was not a return of getChannelBitrate
NoMeasure == [chan |-> 0, invoked |-> FALSE, value |-> NoData]

\* getChannelBitrate(c) returns `value`; invoked: after running tsbitrate
Measure(c, invoked, value) == [chan |-> c, invoked |-> invoked, value |-> value]

\* characters
Digits == {"0", "1", "2", "3", "4", "5", "6", "7", "8", "9"}

Whitespace == {" "}

\* the last line `timeout 2 tsbitrate ... | tail -1` printed, as characters
QuickLines ==
  { <<"2", ",", "5", "0", "0", ",", "0", "0", "0", " ", "b", "/", "s">>,
    <<"9", "6", "0", "0", "b", "/", "s">>,
    <<"b", "/", "s">>,
    <<>> }

\* the ways the tsbitrate pipeline can end: exit 0 with its last line, or an
\* error of execAsync (its 3000 ms timeout)
QuickOutcomes ==
  {[failed |-> FALSE, stdout |-> l] : l \in QuickLines}
    \cup {[failed |-> TRUE, stdout |-> <<>>]}

\* stdout.replace(/,/g, '')
StripCommas(chars) == SelectSeq(chars, LAMBDA ch : ch # ",")

\* the first index from i on whose character is not in S
RECURSIVE RunEnd(_, _, _)
RunEnd(chars, i, S) ==
  IF i > Len(chars) \/ chars[i] \notin S THEN i ELSE RunEnd(chars, i + 1, S)

\* /(\d+)\s*b\/s/ matches at index i
MatchesAt(chars, i) ==
  LET j == RunEnd(chars, i, Digits)
      k == RunEnd(chars, j, Whitespace)
  IN /\ j > i
     /\ k + 2 <= Len(chars)
     /\ chars[k] = "b" /\ chars[k + 1] = "/" /\ chars[k + 2] = "s"

\* parseInt(digits, 10)
RECURSIVE parseInt(_)
parseInt(digits) ==
  IF digits = <<>> THEN 0
  ELSE LET n == Len(digits)
           d == CHOOSE v \in 0..9 : ToString(v) = digits[n]
       IN 10 * parseInt(SubSeq(digits, 1, n - 1)) + d

\* (bps / 1_000_000).toFixed(2), in hundredths of a megabit per second
MbpsHundredths(bps) == (bps + 5000) \div 10000

\* getChannelBitrate, from stdout to its return value
QuickResult(out) ==
  LET chars == StripCommas(out.stdout)
      at == {i \in 1..Len(chars) : MatchesAt(chars, i)}
  IN IF out.failed \/ at = {} THEN NoData
     ELSE LET i == CHOOSE x \in at : \A y \in at : x <= y
              bps == parseInt(SubSeq(chars, i, RunEnd(chars, i, Digits) - 1))
          IN [present |-> TRUE, bps |-> bps, mbps |-> MbpsHundredths(bps),
              at |-> now]

\* every failure of the analyzer reported as a timeout
ExecResult_AllTimeout(out) ==
  CASE out = "json" -> [available |-> TRUE, error |-> "", at |-> now]
    [] OTHER        -> Unavailable("No stream data (timeout)")

\* what analyzeChannel returns after parseTsAnalyzeOutput, by the way the
\* analyzer ended
ExecResult(out) ==
  CASE out = "json"    -> [available |-> TRUE, error |-> "", at |-> now]
    [] out \in {"garbage", "empty"} ->
                          Unavailable("Failed to parse stream analysis")
    [] out = "timeout" -> Unavailable("No stream data (timeout)")
    [] OTHER           -> Unavailable("error.message")

\* an analysisCache whose set keeps the timestamp of the entry it finds
CacheAfterExec_Merged(out, c) ==
  IF out = "json"
    THEN [analysisCache EXCEPT
            ![c] = [present |-> TRUE,
                    timestamp |-> IF @.present THEN @.timestamp ELSE now,
                    data |-> ExecResult(out)]]
    ELSE analysisCache

\* analysisCache after the analyzer ended with `out`: set on a parsed
\* analysis only
CacheAfterExec(out, c) ==
  IF out = "json"
    THEN [analysisCache EXCEPT
            ![c] = [present |-> TRUE, timestamp |-> now, data |-> ExecResult(out)]]
    ELSE analysisCache

CacheInit ==
  /\ now = 0
  /\ fifo = [c \in Analyzed |-> FALSE]
  /\ analysisCache = [c \in Analyzed |-> NoEntry]
  /\ checking = [c \in Analyzed |-> 0]
  /\ analyzing = [c \in Analyzed |-> 0]
  /\ raced = [c \in Analyzed |-> FALSE]
  /\ returned = NoReturn
  /\ ended = NotEnded
  /\ sampling = [c \in Analyzed |-> 0]
  /\ measured = NoMeasure

\* an analyzeChannel that checks the FIFO before it looks at the cache
AnalyzeChannelStart_FeedFirst(c) ==
  /\ TotalInFlight < NumCallers
  /\ checking' = [checking EXCEPT ![c] = @ + 1]
  /\ raced' = [raced EXCEPT ![c] = InFlight(c) > 0]
  /\ returned' = NoReturn
  /\ UNCHANGED <<now, fifo, analysisCache, analyzing>>
  /\ ended' = NotEnded
  /\ measured' = NoMeasure
  /\ UNCHANGED sampling
  /\ UNCHANGED <<svcVars, editorVars, parseVars, summaryVars, storeVars, iloVars, hookVars>>

\* analyzeChannel, from its call to the await of checkFifoExists: the cache
\* lookup, and the return of cached.data on a hit
AnalyzeChannelStart(c) ==
  /\ TotalInFlight < NumCallers
  /\ LET cached == analysisCache[c]
     IN IF CacheFresh(cached)
          THEN /\ checking' = checking
               /\ raced' = [raced EXCEPT ![c] = @ /\ InFlight(c) > 0]
               /\ returned' = Return(c, FALSE, FALSE, cached.data)
          ELSE /\ checking' = [checking EXCEPT ![c] = @ + 1]
               /\ raced' = [raced EXCEPT ![c] = InFlight(c) > 0]
               /\ returned' = NoReturn
  /\ UNCHANGED <<now, fifo, analysisCache, analyzing>>
  /\ ended' = NotEnded
  /\ measured' = NoMeasure
  /\ UNCHANGED sampling
  /\ UNCHANGED <<svcVars, editorVars, parseVars, summaryVars, storeVars, iloVars, hookVars>>

\* analyzeChannel, from the result of checkFifoExists to the await of
\* execAsync: the FIFO-not-found return, or the start of the analyzer
AnalyzeChannelFifoChecked(c) ==
  /\ checking[c] > 0
  /\ checking' = [checking EXCEPT ![c] = @ - 1]
  /\ IF ~fifo[c]
       THEN /\ analyzing' = analyzing
            /\ returned' =
                 Return(c, TRUE, FALSE,
                        Unavailable("Stream not available (FIFO not found)"))
       ELSE /\ analyzing' = [analyzing EXCEPT ![c] = @ + 1]
            /\ returned' = NoReturn
  /\ UNCHANGED <<now, fifo, analysisCache, raced>>
  /\ ended' = NotEnded
  /\ measured' = NoMeasure
  /\ UNCHANGED sampling
  /\ UNCHANGED <<svcVars, editorVars, parseVars, summaryVars, storeVars, iloVars, hookVars>>

\* analyzeChannel, from the end of the analyzer process to its return: parse,
\* cache the parsed analysis, or build the unavailable result
AnalyzeChannelExecDone(c) ==
  /\ analyzing[c] > 0
  /\ analyzing' = [analyzing EXCEPT ![c] = @ - 1]
  /\ \E out \in ExecOutcomes :
       /\ analysisCache' = CacheAfterExec(out, c)
       /\ returned' = Return(c, TRUE, TRUE, ExecResult(out))
       /\ ended' = out
  /\ UNCHANGED <<now, fifo, checking, raced>>
  /\ measured' = NoMeasure
  /\ UNCHANGED sampling
  /\ UNCHANGED <<svcVars, editorVars, parseVars, summaryVars, storeVars, iloVars, hookVars>>

\* time passes
Tick ==
  /\ now < MaxTicks * TickMs
  /\ now' = now + TickMs
  /\ returned' = NoReturn
  /\ UNCHANGED <<fifo, analysisCache, checking, analyzing, raced>>
  /\ ended' = NotEnded
  /\ measured' = NoMeasure
  /\ UNCHANGED sampling
  /\ UNCHANGED <<svcVars, editorVars, parseVars, summaryVars, storeVars, iloVars, hookVars>>

\* the receiver creates or removes the channel's FIFO
FifoChange(c) ==
  /\ fifo' = [fifo EXCEPT ![c] = ~@]
  /\ returned' = NoReturn
  /\ UNCHANGED <<now, analysisCache, checking, analyzing, raced>>
  /\ ended' = NotEnded
  /\ measured' = NoMeasure
  /\ UNCHANGED sampling
  /\ UNCHANGED <<svcVars, editorVars, parseVars, summaryVars, storeVars, iloVars, hookVars>>

\* a getChannelBitrate that runs tsbitrate whatever checkFifoExists finds
GetChannelBitrateStart_Unchecked(c) ==
  /\ TotalInFlight < NumCallers
  /\ sampling' = [sampling EXCEPT ![c] = @ + 1]
  /\ measured' = NoMeasure
  /\ returned' = NoReturn
  /\ ended' = NotEnded
  /\ UNCHANGED <<now, fifo, analysisCache, checking, analyzing, raced>>
  /\ UNCHANGED <<svcVars, editorVars, parseVars, summaryVars, storeVars, iloVars, hookVars>>

\* getChannelBitrate, from its call to the await of execAsync: checkFifoExists
\* (the function does nothing else before it), then the null return or the
\* start of tsbitrate
GetChannelBitrateStart(c) ==
  /\ TotalInFlight < NumCallers
  /\ IF ~fifo[c]
       THEN /\ sampling' = sampling
            /\ measured' = Measure(c, FALSE, NoData)
       ELSE /\ sampling' = [sampling EXCEPT ![c] = @ + 1]
            /\ measured' = NoMeasure
  /\ returned' = NoReturn
  /\ ended' = NotEnded
  /\ UNCHANGED <<now, fifo, analysisCache, checking, analyzing, raced>>
  /\ UNCHANGED <<svcVars, editorVars, parseVars, summaryVars, storeVars, iloVars, hookVars>>

\* getChannelBitrate, from the end of tsbitrate to its return
GetChannelBitrateExecDone(c) ==
  /\ sampling[c] > 0
  /\ sampling' = [sampling EXCEPT ![c] = @ - 1]
  /\ \E out \in QuickOutcomes : measured' = Measure(c, TRUE, QuickResult(out))
  /\ returned' = NoReturn
  /\ ended' = NotEnded
  /\ UNCHANGED <<now, fifo, analysisCache, checking, analyzing, raced>>
  /\ UNCHANGED <<svcVars, editorVars, parseVars, summaryVars, storeVars, iloVars, hookVars>>

CacheNext ==
  \/ \E c \in Analyzed : GetChannelBitrateStart(c)
  \/ \E c \in Analyzed : GetChannelBitrateExecDone(c)
  \/ \E c \in Analyzed : AnalyzeChannelStart(c)
  \/ \E c \in Analyzed : AnalyzeChannelFifoChecked(c)
  \/ \E c \in Analyzed : AnalyzeChannelExecDone(c)
  \/ Tick
  \/ \E c \in Analyzed : FifoChange(c)

(***************************************************************************)
(* GET /api/analyze: the summary of all channels.                          *)
(***************************************************************************)
\* no summary request is being served for the channel
Idle == [stage |-> "idle", available |-> FALSE, total |-> 0, totalMbps |-> 0, at |-> 0]

\* the callback awaits getChannelBitrate, which awaits tsbitrate
Sampling == [Idle EXCEPT !.stage = "sampling"]

\* what the callback makes of the value getChannelBitrate returned
SummaryEntry(bitrate) ==
  IF bitrate.present
    THEN [stage |-> "done", available |-> TRUE, total |-> bitrate.bps,
          totalMbps |-> bitrate.mbps, at |-> bitrate.at]
    ELSE [Idle EXCEPT !.stage = "done"]

SummaryInit == summary = [c \in Channels |-> Idle]

\* what checkFifoExists finds for every channel; the FIFOs of the channels
\* in Analyzed are the ones analyzeChannel sees
FeedsSeen == {seen \in [Channels -> BOOLEAN] : \A c \in Analyzed : seen[c] = fifo[c]}

\* a summary that runs the full analysis for every channel
SummaryRequest_FullAnalysis ==
  /\ \A c \in Channels : summary[c].stage = "idle"
  /\ summary' = [c \in Channels |-> Sampling]
  /\ checking' = [c \in Analyzed |-> checking[c] + 1]
  /\ returned' = NoReturn
  /\ ended' = NotEnded
  /\ measured' = NoMeasure
  /\ UNCHANGED <<now, fifo, analysisCache, analyzing, raced, sampling>>
  /\ UNCHANGED <<svcVars, editorVars, parseVars, storeVars, iloVars, hookVars>>

\* GET /api/analyze, up to the await of Promise.all: one getChannelBitrate
\* per channel, each up to its null return or the start of tsbitrate
SummaryRequest ==
  /\ \A c \in Channels : summary[c].stage = "idle"
  /\ \E seen \in FeedsSeen :
       /\ TotalInFlight + Cardinality({c \in Channels : seen[c]}) <= NumCallers
       /\ summary' = [c \in Channels |-> IF seen[c] THEN Sampling ELSE SummaryEntry(NoData)]
  /\ returned' = NoReturn
  /\ ended' = NotEnded
  /\ measured' = NoMeasure
  /\ UNCHANGED <<now, fifo, analysisCache, checking, analyzing, raced, sampling>>
  /\ UNCHANGED <<svcVars, editorVars, parseVars, storeVars, iloVars, hookVars>>

\* the callback for channel c, from the end of tsbitrate to its return
SummaryBitrateDone(c) ==
  /\ summary[c].stage = "sampling"
  /\ \E out \in QuickOutcomes :
       summary' = [summary EXCEPT ![c] = SummaryEntry(QuickResult(out))]
  /\ returned' = NoReturn
  /\ ended' = NotEnded
  /\ measured' = NoMeasure
  /\ UNCHANGED <<now, fifo, analysisCache, checking, analyzing, raced, sampling>>
  /\ UNCHANGED <<svcVars, editorVars, parseVars, storeVars, iloVars, hookVars>>

\* the data of the body GET /api/analyze answers with: the results of the
\* callbacks in the order of getChannelIds()
SummaryResults ==
  [i \in 1..ChannelCount |->
     [channelId |-> getChannelIds[i],
      available |-> summary[getChannelIds[i]].available,
      total |-> summary[getChannelIds[i]].total,
      totalMbps |-> summary[getChannelIds[i]].totalMbps,
      at |-> summary[getChannelIds[i]].at]]

\* all callbacks have returned: Promise.all is fulfilled
SummaryReady == \A c \in Channels : summary[c].stage = "done"

\* GET /api/analyze, from the fulfilment of Promise.all to res.json, which
\* sends SummaryResults
SummaryRespond ==
  /\ SummaryReady
  /\ summary' = [c \in Channels |-> Idle]
  /\ returned' = NoReturn
  /\ ended' = NotEnded
  /\ measured' = NoMeasure
  /\ UNCHANGED <<now, fifo, analysisCache, checking, analyzing, raced, sampling>>
  /\ UNCHANGED <<svcVars, editorVars, parseVars, storeVars, iloVars, hookVars>>

\* the summary route next to the full analysis of single channels, all
\* within one tick of the clock
SummaryNext ==
  \/ SummaryRequest
  \/ \E c \in Channels : SummaryBitrateDone(c)
  \/ SummaryRespond
  \/ \E c \in Analyzed : AnalyzeChannelStart(c)
  \/ \E c \in Analyzed : AnalyzeChannelFifoChecked(c)
  \/ \E c \in Analyzed : AnalyzeChannelExecDone(c)
  \/ \E c \in Analyzed : FifoChange(c)

(***************************************************************************)
(* tsanalyzeService: parseTsAnalyzeOutput, and the PID table of the        *)
(* front end.                                                              *)
(***************************************************************************)
\* a property that the JSON does not have (undefined), and one it has
Absent == <<>>

Some(v) == <<v>>

\* `x || 0` of a number
OrZero(x) == IF x = Absent THEN 0 ELSE x[1]

\* nothing printed yet
NoOutput == [printed |-> FALSE, json |-> FALSE, ts |-> [bitrate |-> Absent], pids |-> Absent]

\* no analysis yet; parseTsAnalyzeOutput returned null
NotParsed == [done |-> FALSE, ok |-> FALSE, bitrate |-> [total |-> 0, totalMbps |-> ""], pids |-> <<>>]

Null == [NotParsed EXCEPT !.done = TRUE]

\* no table rendered yet
NoTable == [rendered |-> FALSE, rows |-> <<>>]

\* what tsanalyze may report: feed-level bitrates, PIDs, per-PID bitrates,
\* descriptions
TotalBitrates == {Absent, Some(0), Some(20000000)}

Pids == {0, 256, 8191}

PidBitrates == {Absent, Some(0), Some(3000000), Some(17000000)}

Descriptions == {Absent, Some("AVC video")}

PidEntries == [pid : Pids, bitrate : PidBitrates, description : Descriptions]

RECURSIVE SeqsOfLen(_, _)
SeqsOfLen(S, n) ==
  IF n = 0 THEN {<<>>}
  ELSE {Append(q, x) : q \in SeqsOfLen(S, n - 1), x \in S}

\* the `pids` arrays of up to MaxPids entries
PidLists == UNION {SeqsOfLen(PidEntries, n) : n \in 0..MaxPids}

\* the outputs of tsanalyze --json: text that is not JSON, or an object with
\* an optional ts.bitrate and an optional pids array
Payloads ==
  {[NoOutput EXCEPT !.printed = TRUE]}
    \cup {[printed |-> TRUE, json |-> TRUE, ts |-> [bitrate |-> t], pids |-> ps] :
            t \in TotalBitrates, ps \in {Absent} \cup {Some(l) : l \in PidLists}}

\* getPidType
getPidType(pid) ==
  CASE pid = 0    -> "PAT"
    [] pid = 1    -> "CAT"
    [] pid = 16   -> "NIT"
    [] pid = 17   -> "SDT/BAT"
    [] pid = 18   -> "EIT"
    [] pid = 20   -> "TDT/TOT"
    [] pid = 8191 -> "Null"
    [] OTHER      -> "Unknown"

RECURSIVE Pow10(_)
Pow10(d) == IF d = 0 THEN 1 ELSE 10 * Pow10(d - 1)

\* n written with d digits, zero-padded
RECURSIVE Padded(_, _)
Padded(n, d) ==
  IF d = 0 THEN "" ELSE Padded(n \div 10, d - 1) \o ToString(n % 10)

\* (num / den).toFixed(d), for num >= 0 and den > 0: rounded to d decimals
toFixed(num, den, d) ==
  LET scaled == (num \div den) * Pow10(d)
                  + ((num % den) * Pow10(d) * 2 + den) \div (2 * den)
  IN ToString(scaled \div Pow10(d)) \o "." \o Padded(scaled % Pow10(d), d)

\* ((pid.bitrate / ts.bitrate) * 100).toFixed(1), or '0.0': undefined
\* divided by a number is NaN, and NaN.toFixed(1) is 'NaN'
Percentage(pidBitrate, tsBitrate) ==
  IF OrZero(tsBitrate) = 0 THEN "0.0"
  ELSE IF pidBitrate = Absent THEN "NaN"
  ELSE toFixed(pidBitrate[1] * 100, tsBitrate[1], 1)

\* the object pushed for one entry of data.pids
PidStat(pid, ts) ==
  [pid         |-> pid.pid,
   type        |-> IF pid.description = Absent THEN getPidType(pid.pid)
                   ELSE pid.description[1],
   bitrate     |-> OrZero(pid.bitrate),
   bitrateMbps |-> IF OrZero(pid.bitrate) = 0 THEN "0.000"
                   ELSE toFixed(pid.bitrate[1], 1000000, 3),
   percentage  |-> Percentage(pid.bitrate, ts.bitrate)]

\* pids left in the order reported
SortByBitrateDesc_Unsorted(pids) == pids

\* pids.sort((a, b) => b.bitrate - a.bitrate): stable, by descending bitrate
RECURSIVE SortByBitrateDesc(_)
SortByBitrateDesc(pids) ==
  IF pids = <<>> THEN <<>>
  ELSE LET n == Len(pids)
           x == pids[n]
           sorted == SortByBitrateDesc(SubSeq(pids, 1, n - 1))
           k == Cardinality({i \in 1..Len(sorted) : sorted[i].bitrate >= x.bitrate})
       IN SubSeq(sorted, 1, k) \o <<x>> \o SubSeq(sorted, k + 1, Len(sorted))

\* parseTsAnalyzeOutput: its bitrate and pids (services and the packet
\* counters are copied field by field and are left out)
parseTsAnalyzeOutput(output) ==
  IF ~output.json THEN Null
  ELSE LET ts == output.ts
           reported == IF output.pids = Absent THEN <<>> ELSE output.pids[1]
           pids == [i \in 1..Len(reported) |-> PidStat(reported[i], ts)]
       IN [done    |-> TRUE,
           ok      |-> TRUE,
           bitrate |-> [total |-> OrZero(ts.bitrate),
                        totalMbps |-> IF OrZero(ts.bitrate) = 0 THEN "0.00"
                                      ELSE toFixed(ts.bitrate[1], 1000000, 2)],
           pids    |-> SortByBitrateDesc(pids)]

\* PidTable: pids.filter(p => p.pid !== 8191).slice(0, compact ? 5 : undefined)
displayPids(pids, compact) ==
  LET shown == SelectSeq(pids, LAMBDA p : p.pid # 8191)
  IN IF compact /\ Len(shown) > 5 THEN SubSeq(shown, 1, 5) ELSE shown

ParseInit ==
  /\ jsonOutput = NoOutput
  /\ analysis = NotParsed
  /\ table = NoTable

\* tsanalyze prints its output
TsanalyzePrints ==
  /\ ~jsonOutput.printed
  /\ \E p \in Payloads : jsonOutput' = p
  /\ UNCHANGED <<analysis, table>>
  /\ UNCHANGED <<cacheVars, svcVars, editorVars, summaryVars, storeVars, iloVars, hookVars>>

\* analyzeChannel hands stdout to parseTsAnalyzeOutput
ParseOutput ==
  /\ jsonOutput.printed
  /\ ~analysis.done
  /\ analysis' = parseTsAnalyzeOutput(jsonOutput)
  /\ UNCHANGED <<jsonOutput, table>>
  /\ UNCHANGED <<cacheVars, svcVars, editorVars, summaryVars, storeVars, iloVars, hookVars>>

\* the front end renders the PID table of the analysis
RenderPidTable(compact) ==
  /\ analysis.ok
  /\ Len(analysis.pids) > 0
  /\ ~table.rendered
  /\ table' = [rendered |-> TRUE, rows |-> displayPids(analysis.pids, compact)]
  /\ UNCHANGED <<jsonOutput, analysis>>
  /\ UNCHANGED <<cacheVars, svcVars, editorVars, summaryVars, storeVars, iloVars, hookVars>>

ParseNext ==
  \/ TsanalyzePrints
  \/ ParseOutput
  \/ \E compact \in BOOLEAN : RenderPidTable(compact)

(***************************************************************************)
(* systemdService and the service-control routes.                          *)
(***************************************************************************)
\* routes: const validServices = ['rx', 'rec', 'rtmp']
validServices == {"rx", "rec", "rtmp"}

validActions == {"start", "stop", "restart"}

\* config.servicePatterns, each pattern split at its {port} placeholder
servicePatterns ==
  [rx   |-> <<"rx", ".service">>,
   rec  |-> <<"rec", ".service">>,
   rtmp |-> <<"rtmp", ".service">>]

\* a property name every JavaScript object inherits from Object.prototype:
\* config.servicePatterns[name] is then a function, not undefined
ObjectPrototypeKeys == {"constructor"}

\* the service kinds and actions a caller may pass
Kinds == validServices \cup {"audio"} \cup ObjectPrototypeKeys

Actions == validActions \cup {"reload"}

\* typeof config.servicePatterns[serviceType]
PatternType(serviceType) ==
  IF serviceType \in DOMAIN servicePatterns THEN "string"
  ELSE IF serviceType \in ObjectPrototypeKeys THEN "function"
  ELSE "undefined"

\* getServiceName: the unit name, or the error it throws
getServiceName(id, serviceType) ==
  CASE PatternType(serviceType) = "undefined" ->
         [ok |-> FALSE, name |-> "", error |-> "Unknown service type"]
    [] PatternType(serviceType) = "function" ->
         [ok |-> FALSE, name |-> "", error |-> "pattern.replace is not a function"]
    [] OTHER ->
         [ok |-> TRUE,
          name |-> servicePatterns[serviceType][1] \o ToString(id)
                     \o servicePatterns[serviceType][2],
          error |-> ""]

\* ActiveState as `systemctl is-active` prints it
ActiveStates == {"active", "activating", "deactivating", "failed", "inactive"}

LoadStates == {"loaded", "not-found"}

\* MainPID as `systemctl show` prints it
MainPids == {"0", "4242"}

\* the command line systemctl() runs
CommandLine(command, serviceName, useSudo) ==
  (IF useSudo THEN "sudo systemctl " ELSE "systemctl ") \o command \o " " \o serviceName

\* how the child process of execAsync ends: exit code and stdout, or killed
\* at the 30 s timeout
Exit(code, stdout) == [code |-> code, stdout |-> stdout, killed |-> FALSE]

Killed == [code |-> 1, stdout |-> "", killed |-> TRUE]

\* start / stop / restart: done, refused, or timed out
ActionOutcomes == {Exit(0, ""), Exit(1, ""), Killed}

\* is-active: exit 0 and "active", exit 3 and another state, or a failure
\* that prints nothing
IsActiveOutcomes ==
  {Exit(0, "active")} \cup {Exit(3, a) : a \in ActiveStates \ {"active"}}
    \cup {Exit(1, ""), Killed}

\* parseShowOutput of an empty output
NoProps == [LoadState |-> "", MainPID |-> "", ActiveEnterTimestamp |-> ""]

\* the instants, in milliseconds, of the timestamps that `new Date(timestamp)`
\* can parse
InstantOf ==
  [t \in {"Thu 1970-01-01 00:00:00 UTC", "Fri 1970-01-02 01:01:01 UTC"} |->
     IF t = "Thu 1970-01-01 00:00:00 UTC" THEN 0 ELSE 90061000]

\* what show prints for ActiveEnterTimestamp: nothing (also when the line is
\* missing), n/a, text that is no date, or a date
ActiveEnterTimestamps == {"", "n/a", "not a date"} \cup DOMAIN InstantOf

\* the readings of `new Date()` in calculateUptime
ClockReadings == {59000, 93722000}

\* show: the properties, as parseShowOutput reads them, or a failure
ShowOutcomes ==
  {Exit(0, [LoadState |-> l, MainPID |-> m, ActiveEnterTimestamp |-> t]) :
     l \in LoadStates, m \in MainPids, t \in ActiveEnterTimestamps}
    \cup {Exit(1, NoProps), [Killed EXCEPT !.stdout = NoProps]}

\* systemctl(): stdout, or the error thrown; an is-active that exits non-zero
\* but printed a state is a reading, not an error
systemctl(command, serviceName, useSudo, out) ==
  IF out.code = 0 /\ ~out.killed
    THEN [thrown |-> FALSE, stdout |-> out.stdout, message |-> ""]
  ELSE IF command = "is-active" /\ out.stdout # ""
    THEN [thrown |-> FALSE, stdout |-> out.stdout, message |-> ""]
  ELSE [thrown |-> TRUE, stdout |-> "",
        message |-> "Command failed: " \o CommandLine(command, serviceName, useSudo)]

\* a status mapping that has no 'not-found'
StatusOf_NotFoundIsStopped(activeState, loadState) ==
  CASE activeState = "active"       -> "running"
    [] activeState = "activating"   -> "starting"
    [] activeState = "deactivating" -> "stopping"
    [] activeState = "failed"       -> "error"
    [] OTHER                        -> "stopped"

\* getServiceStatus: activeState and LoadState to status
StatusOf(activeState, loadState) ==
  CASE activeState = "active"       -> "running"
    [] activeState = "activating"   -> "starting"
    [] activeState = "deactivating" -> "stopping"
    [] activeState = "failed"       -> "error"
    [] loadState = "not-found"      -> "not-found"
    [] OTHER                        -> "stopped"

\* `props.MainPID !== '0' ? parseInt(props.MainPID, 10) : null` (0: null)
PidOf(mainPid) == IF mainPid # "0" THEN 4242 ELSE 0

\* null, and a property the object does not have
NoValue == <<>>

\* `now - startTime` for `new Date(timestamp)`: NaN when the date is invalid
DiffMs(timestamp, clock) ==
  IF timestamp \in DOMAIN InstantOf
    THEN [nan |-> FALSE, ms |-> clock - InstantOf[timestamp]]
    ELSE [nan |-> TRUE, ms |-> 0]

\* calculateUptime: every comparison with NaN is false and Math.floor(NaN)
\* prints as NaN; `new Date` does not throw
calculateUptime(timestamp, clock) ==
  IF timestamp = "" \/ timestamp = "n/a" THEN NoValue
  ELSE LET diff == DiffMs(timestamp, clock)
           days == diff.ms \div 86400000
           hours == (diff.ms % 86400000) \div 3600000
           minutes == (diff.ms % 3600000) \div 60000
           seconds == (diff.ms % 60000) \div 1000
       IN IF diff.nan THEN <<"NaNs">>
          ELSE IF diff.ms < 0 THEN NoValue
          ELSE IF days > 0
            THEN <<ToString(days) \o "d " \o ToString(hours) \o "h "
                     \o ToString(minutes) \o "m">>
          ELSE IF hours > 0
            THEN <<ToString(hours) \o "h " \o ToString(minutes) \o "m "
                     \o ToString(seconds) \o "s">>
          ELSE IF minutes > 0
            THEN <<ToString(minutes) \o "m " \o ToString(seconds) \o "s">>
          ELSE <<ToString(seconds) \o "s">>

\* no status object; in a status object `read` is what the supervisor printed
\* and what the clock read
NoReading ==
  [code |-> 0, active |-> "", load |-> "", mainPid |-> "", timestamp |-> "",
   clock |-> 0]

NoProbe ==
  [status |-> "", pid |-> 0, uptime |-> NoValue, error |-> "", read |-> NoReading]

\* getServiceStatus: the object built from is-active's stdout and the shown
\* properties (memory and subState are copied from the properties and are
\* left out)
StatusObject(isActive, props, clock) ==
  [status |-> StatusOf(isActive.stdout, props.LoadState),
   pid |-> PidOf(props.MainPID),
   uptime |-> calculateUptime(props.ActiveEnterTimestamp, clock),
   error |-> "",
   read |-> [code |-> isActive.code, active |-> isActive.stdout,
             load |-> props.LoadState, mainPid |-> props.MainPID,
             timestamp |-> props.ActiveEnterTimestamp, clock |-> clock]]

\* getServiceStatus: the object its catch block returns
StatusUnknown(message) ==
  [status |-> "unknown", pid |-> 0, uptime |-> NoValue, error |-> message,
   read |-> NoReading]

\* a request: `requested` is the channelIds array of the body, if `given`;
\* ids is the list of channels it acts on
NoRequest ==
  [type |-> "none", service |-> "", action |-> "", given |-> FALSE,
   requested |-> <<>>, ids |-> <<>>]

NoResponse == [status |-> 0, success |-> FALSE, error |-> "", results |-> <<>>]

\* the systemctl command `verb` on `unit`
Command(unit, verb) == [unit |-> unit, verb |-> verb]

\* the unit the i-th call of the request works on
UnitOf(i) == getServiceName(tasks[i].ch, req.service).name

\* a call goes on to its next step: log lists the steps of the call, the
\* commands it issued and "delay" for its settle delay
Step(t, pc, step) == [t EXCEPT !.pc = pc, !.log = Append(@, step)]

\* controlService from its call to the await of systemctl(action): the call
\* that getServiceName or the action check rejects, or the one that waits
ControlTask(id, serviceType, action) ==
  LET n == getServiceName(id, serviceType)
  IN IF ~n.ok
       THEN [ch |-> id, pc |-> "rejected", err |-> n.error, log |-> <<>>]
     ELSE IF action \notin validActions
       THEN [ch |-> id, pc |-> "rejected", err |-> "Invalid action", log |-> <<>>]
     ELSE [ch |-> id, pc |-> "action", err |-> "", log |-> <<action>>]

\* the commands that stretch of controlService issues
ControlCommands(id, serviceType, action) ==
  IF ControlTask(id, serviceType, action).pc = "action"
    THEN {Command(getServiceName(id, serviceType).name, action)}
    ELSE {}

\* getServiceStatus from its call to the await of systemctl('is-active')
ProbeTask(id, serviceType) ==
  LET n == getServiceName(id, serviceType)
  IN IF ~n.ok
       THEN [ch |-> id, pc |-> "rejected", err |-> n.error, log |-> <<>>]
       ELSE [ch |-> id, pc |-> "isactive", err |-> "", log |-> <<"is-active">>]

ProbeCommands(id, serviceType) ==
  IF ProbeTask(id, serviceType).pc = "isactive"
    THEN {Command(getServiceName(id, serviceType).name, "is-active")}
    ELSE {}

Settled(t) == t.pc \in {"fulfilled", "rejected"}

\* no call of the request is pending and its response, if it has one, is sent
Quiescent ==
  /\ req.type # "none"
  /\ \A i \in 1..Len(tasks) : Settled(tasks[i])
  /\ req.type \in {"bulk", "single"} => response.status # 0

\* the bodies of a bulk request: no ids, or an array of ids, known or not
RequestIds == Channels \cup {channelStart + ChannelCount}

RECURSIVE SeqsUpTo(_, _)
SeqsUpTo(S, n) ==
  IF n = 0 THEN {<<>>}
  ELSE LET shorter == SeqsUpTo(S, n - 1)
       IN shorter \cup {Append(q, x) : q \in {r \in shorter : Len(r) = n - 1}, x \in S}

IsValidId(id) == \E i \in 1..ChannelCount : getChannelIds[i] = id

\* `requestedIds?.length > 0 ? requestedIds.filter(...) : allChannelIds`
TargetIds(given, ids) ==
  IF given /\ Len(ids) > 0 THEN SelectSeq(ids, IsValidId) ELSE getChannelIds

\* a bulk response that reports success when any call succeeded
BulkResponse_AnySucceeded(targetIds, ts) ==
  LET failed == Cardinality({i \in 1..Len(ts) : ts[i].pc = "rejected"})
  IN [status |-> 200,
      success |-> failed < Len(ts),
      error |-> "",
      results |-> [i \in 1..Len(ts) |->
                     [channelId |-> targetIds[i],
                      success |-> ts[i].pc = "fulfilled",
                      error |-> ts[i].err]]]

\* a bulk response that lists the outcomes against the target list reversed
BulkResponse_Misattributed(targetIds, ts) ==
  LET failed == Cardinality({i \in 1..Len(ts) : ts[i].pc = "rejected"})
  IN [status |-> 200,
      success |-> failed = 0,
      error |-> "",
      results |-> [i \in 1..Len(ts) |->
                     [channelId |-> targetIds[Len(ts) + 1 - i],
                      success |-> ts[i].pc = "fulfilled",
                      error |-> ts[i].err]]]

\* the response of the bulk route once every call has settled
BulkResponse(targetIds, ts) ==
  LET failed == Cardinality({i \in 1..Len(ts) : ts[i].pc = "rejected"})
  IN [status |-> 200,
      success |-> failed = 0,
      error |-> "",
      results |-> [i \in 1..Len(ts) |->
                     [channelId |-> targetIds[i],
                      success |-> ts[i].pc = "fulfilled",
                      error |-> ts[i].err]]]

BadRequest(msg) == [status |-> 400, success |-> FALSE, error |-> msg, results |-> <<>>]

SvcInit ==
  /\ req = NoRequest
  /\ tasks = <<>>
  /\ commands = {}
  /\ probed = NoProbe
  /\ response = NoResponse

\* POST /api/services/bulk/:service/:action, up to the await of
\* Promise.allSettled
BulkRequest(service, action, given, ids) ==
  /\ req.type = "none"
  /\ UNCHANGED <<cacheVars, editorVars, parseVars, summaryVars, storeVars, iloVars, hookVars>>
  /\ req' = [type |-> "bulk", service |-> service, action |-> action,
             given |-> given, requested |-> ids, ids |-> TargetIds(given, ids)]
  /\ probed' = NoProbe
  /\ IF service \notin validServices
       THEN /\ response' = BadRequest("Invalid service")
            /\ tasks' = <<>>
            /\ commands' = {}
     ELSE IF action \notin validActions
       THEN /\ response' = BadRequest("Invalid action")
            /\ tasks' = <<>>
            /\ commands' = {}
     ELSE IF Len(TargetIds(given, ids)) = 0
       THEN /\ response' = BadRequest("No valid channel IDs specified")
            /\ tasks' = <<>>
            /\ commands' = {}
     ELSE LET targetIds == TargetIds(given, ids)
          IN /\ response' = NoResponse
             /\ tasks' = [i \in 1..Len(targetIds) |->
                            ControlTask(targetIds[i], service, action)]
             /\ commands' = UNION {ControlCommands(targetIds[i], service, action) :
                                     i \in 1..Len(targetIds)}

\* the bulk route after Promise.allSettled: the 200 response
BulkRespond ==
  /\ req.type = "bulk"
  /\ response.status = 0
  /\ \A i \in 1..Len(tasks) : Settled(tasks[i])
  /\ response' = BulkResponse(req.ids, tasks)
  /\ probed' = NoProbe
  /\ UNCHANGED <<req, tasks, commands>>
  /\ UNCHANGED <<cacheVars, editorVars, parseVars, summaryVars, storeVars, iloVars, hookVars>>

\* the responses of the single route
NotFound(msg) == [status |-> 404, success |-> FALSE, error |-> msg, results |-> <<>>]

ServerError(msg) == [status |-> 500, success |-> FALSE, error |-> msg, results |-> <<>>]

Ok == [status |-> 200, success |-> TRUE, error |-> "", results |-> <<>>]

\* a single route that does not check the service
SingleRequest_ServiceUnchecked(id, service, action) ==
  /\ req.type = "none"
  /\ UNCHANGED <<cacheVars, editorVars, parseVars, summaryVars, storeVars, iloVars, hookVars>>
  /\ req' = [type |-> "single", service |-> service, action |-> action,
             given |-> FALSE, requested |-> <<>>, ids |-> <<id>>]
  /\ probed' = NoProbe
  /\ IF ~IsValidId(id)
       THEN /\ response' = NotFound("Channel not found")
            /\ tasks' = <<>>
            /\ commands' = {}
     ELSE IF action \notin validActions
       THEN /\ response' = BadRequest("Invalid action")
            /\ tasks' = <<>>
            /\ commands' = {}
     ELSE /\ response' = NoResponse
          /\ tasks' = <<ControlTask(id, service, action)>>
          /\ commands' = ControlCommands(id, service, action)

\* POST /api/services/:channelId/:service/:action, up to the await of
\* controlService
SingleRequest(id, service, action) ==
  /\ req.type = "none"
  /\ UNCHANGED <<cacheVars, editorVars, parseVars, summaryVars, storeVars, iloVars, hookVars>>
  /\ req' = [type |-> "single", service |-> service, action |-> action,
             given |-> FALSE, requested |-> <<>>, ids |-> <<id>>]
  /\ probed' = NoProbe
  /\ IF ~IsValidId(id)
       THEN /\ response' = NotFound("Channel not found")
            /\ tasks' = <<>>
            /\ commands' = {}
     ELSE IF service \notin validServices
       THEN /\ response' = BadRequest("Invalid service")
            /\ tasks' = <<>>
            /\ commands' = {}
     ELSE IF action \notin validActions
       THEN /\ response' = BadRequest("Invalid action")
            /\ tasks' = <<>>
            /\ commands' = {}
     ELSE /\ response' = NoResponse
          /\ tasks' = <<ControlTask(id, service, action)>>
          /\ commands' = ControlCommands(id, service, action)

\* the single route: controlService has returned, getServiceStatus is called
SingleProbe ==
  /\ req.type = "single"
  /\ response.status = 0
  /\ Len(tasks) = 1
  /\ tasks[1].pc = "fulfilled"
  /\ tasks' = Append(tasks, ProbeTask(req.ids[1], req.service))
  /\ commands' = commands \cup ProbeCommands(req.ids[1], req.service)
  /\ probed' = NoProbe
  /\ UNCHANGED <<req, response>>
  /\ UNCHANGED <<cacheVars, editorVars, parseVars, summaryVars, storeVars, iloVars, hookVars>>

\* the single route: the 200 response once getServiceStatus has returned, or
\* the 500 response of the catch block
SingleRespond ==
  /\ req.type = "single"
  /\ response.status = 0
  /\ \A i \in 1..Len(tasks) : Settled(tasks[i])
  /\ \/ /\ \E i \in 1..Len(tasks) : tasks[i].pc = "rejected"
        /\ response' =
             ServerError(tasks[CHOOSE i \in 1..Len(tasks) : tasks[i].pc = "rejected"].err)
     \/ /\ Len(tasks) = 2
        /\ \A i \in 1..Len(tasks) : tasks[i].pc = "fulfilled"
        /\ response' = Ok
  /\ probed' = NoProbe
  /\ UNCHANGED <<req, tasks, commands>>
  /\ UNCHANGED <<cacheVars, editorVars, parseVars, summaryVars, storeVars, iloVars, hookVars>>

\* a call of controlService(channelId, serviceType, action)
ControlCall(id, serviceType, action) ==
  /\ req.type = "none"
  /\ UNCHANGED <<cacheVars, editorVars, parseVars, summaryVars, storeVars, iloVars, hookVars>>
  /\ req' = [type |-> "control", service |-> serviceType, action |-> action,
             given |-> FALSE, requested |-> <<>>, ids |-> <<id>>]
  /\ tasks' = <<ControlTask(id, serviceType, action)>>
  /\ commands' = ControlCommands(id, serviceType, action)
  /\ probed' = NoProbe
  /\ response' = NoResponse

\* a call of getServiceStatus(channelId, serviceType)
ProbeCall(id, serviceType) ==
  /\ req.type = "none"
  /\ UNCHANGED <<cacheVars, editorVars, parseVars, summaryVars, storeVars, iloVars, hookVars>>
  /\ req' = [type |-> "probe", service |-> serviceType, action |-> "",
             given |-> FALSE, requested |-> <<>>, ids |-> <<id>>]
  /\ tasks' = <<ProbeTask(id, serviceType)>>
  /\ commands' = ProbeCommands(id, serviceType)
  /\ probed' = NoProbe
  /\ response' = NoResponse

\* a controlService that runs the action again when it failed
ActionDone_Retries(i) ==
  /\ i \in 1..Len(tasks)
  /\ tasks[i].pc = "action"
  /\ \E out \in ActionOutcomes :
       LET r == systemctl(req.action, UnitOf(i), TRUE, out)
       IN tasks' = [tasks EXCEPT ![i] =
                      IF ~r.thrown THEN Step(@, "settle", "delay")
                      ELSE IF Len(@.log) < 2 THEN Step(@, "action", req.action)
                      ELSE [@ EXCEPT !.pc = "rejected", !.err = r.message]]
  /\ probed' = NoProbe
  /\ UNCHANGED <<req, commands, response>>
  /\ UNCHANGED <<cacheVars, editorVars, parseVars, summaryVars, storeVars, iloVars, hookVars>>

\* controlService: `sudo systemctl <action>` ends; on success the settle
\* delay starts, on failure the error leaves controlService
ActionDone(i) ==
  /\ i \in 1..Len(tasks)
  /\ tasks[i].pc = "action"
  /\ \E out \in ActionOutcomes :
       LET r == systemctl(req.action, UnitOf(i), TRUE, out)
       IN tasks' = [tasks EXCEPT ![i] =
                      IF ~r.thrown THEN Step(@, "settle", "delay")
                      ELSE [@ EXCEPT !.pc = "rejected", !.err = r.message]]
  /\ probed' = NoProbe
  /\ UNCHANGED <<req, commands, response>>
  /\ UNCHANGED <<cacheVars, editorVars, parseVars, summaryVars, storeVars, iloVars, hookVars>>

\* controlService: the 500 ms delay is over, getServiceStatus is called and
\* issues is-active
SettleDone(i) ==
  /\ i \in 1..Len(tasks)
  /\ tasks[i].pc = "settle"
  /\ tasks' = [tasks EXCEPT ![i] = Step(@, "isactive", "is-active")]
  /\ commands' = commands \cup {Command(UnitOf(i), "is-active")}
  /\ probed' = NoProbe
  /\ UNCHANGED <<req, response>>
  /\ UNCHANGED <<cacheVars, editorVars, parseVars, summaryVars, storeVars, iloVars, hookVars>>

\* the status object as the caller of controlService / getServiceStatus gets
\* it; the callback of the bulk route drops it and returns { id, success },
\* and the single route passes it on in the body of its response
StatusSeen(status) == IF req.type \in {"bulk", "single"} THEN NoProbe ELSE status

\* a getServiceStatus that lets the error of a failed query escape
IsActiveDone_Throws(i) ==
  /\ i \in 1..Len(tasks)
  /\ tasks[i].pc = "isactive"
  /\ \E out \in IsActiveOutcomes :
       LET r == systemctl("is-active", UnitOf(i), FALSE, out)
       IN IF r.thrown
            THEN /\ tasks' = [tasks EXCEPT ![i].pc = "rejected", ![i].err = r.message]
                 /\ commands' = commands
                 /\ probed' = NoProbe
            ELSE /\ tasks' = [tasks EXCEPT ![i] = Step(@, "show", "show")]
                 /\ commands' = commands \cup {Command(UnitOf(i), "show")}
                 /\ probed' = NoProbe
  /\ UNCHANGED <<req, response>>
  /\ UNCHANGED <<cacheVars, editorVars, parseVars, summaryVars, storeVars, iloVars, hookVars>>

\* getServiceStatus: is-active ends.  What it printed stays in a local of
\* the call until show has ended; an error thrown by systemctl() is caught
\* and the 'unknown' object returned
IsActiveDone(i) ==
  /\ i \in 1..Len(tasks)
  /\ tasks[i].pc = "isactive"
  /\ \E out \in IsActiveOutcomes :
       LET r == systemctl("is-active", UnitOf(i), FALSE, out)
       IN IF r.thrown
            THEN /\ tasks' = [tasks EXCEPT ![i].pc = "fulfilled"]
                 /\ commands' = commands
                 /\ probed' = StatusSeen(StatusUnknown(r.message))
            ELSE /\ tasks' = [tasks EXCEPT ![i] = Step(@, "show", "show")]
                 /\ commands' = commands \cup {Command(UnitOf(i), "show")}
                 /\ probed' = NoProbe
  /\ UNCHANGED <<req, response>>
  /\ UNCHANGED <<cacheVars, editorVars, parseVars, summaryVars, storeVars, iloVars, hookVars>>

\* the readings is-active may have left in the local of the i-th call
ActiveReadings(i) ==
  {out \in IsActiveOutcomes : ~systemctl("is-active", UnitOf(i), FALSE, out).thrown}

\* a getServiceStatus that lets the error of a failed show escape
ShowDone_Throws(i) ==
  /\ i \in 1..Len(tasks)
  /\ tasks[i].pc = "show"
  /\ \E isActive \in ActiveReadings(i), out \in ShowOutcomes, clock \in ClockReadings :
       LET r == systemctl("show", UnitOf(i), FALSE, out)
       IN IF r.thrown
            THEN /\ tasks' = [tasks EXCEPT ![i].pc = "rejected", ![i].err = r.message]
                 /\ probed' = NoProbe
            ELSE /\ tasks' = [tasks EXCEPT ![i].pc = "fulfilled"]
                 /\ probed' = StatusSeen(StatusObject(isActive, r.stdout, clock))
  /\ UNCHANGED <<req, commands, response>>
  /\ UNCHANGED <<cacheVars, editorVars, parseVars, summaryVars, storeVars, iloVars, hookVars>>

\* getServiceStatus: show ends; the status object built from what is-active
\* printed (read here for the first time) and from the properties shown, or
\* 'unknown' when show failed
ShowDone(i) ==
  /\ i \in 1..Len(tasks)
  /\ tasks[i].pc = "show"
  /\ tasks' = [tasks EXCEPT ![i].pc = "fulfilled"]
  /\ IF req.type \in {"bulk", "single"}
       THEN probed' = StatusSeen(NoProbe)
       ELSE \E isActive \in ActiveReadings(i), out \in ShowOutcomes,
               clock \in ClockReadings :
              LET r == systemctl("show", UnitOf(i), FALSE, out)
              IN probed' = StatusSeen(IF r.thrown THEN StatusUnknown(r.message)
                                      ELSE StatusObject(isActive, r.stdout, clock))
  /\ UNCHANGED <<req, commands, response>>
  /\ UNCHANGED <<cacheVars, editorVars, parseVars, summaryVars, storeVars, iloVars, hookVars>>

\* the request is over: its promises and its response are dropped
RequestEnd ==
  /\ Quiescent
  /\ req' = NoRequest
  /\ tasks' = <<>>
  /\ commands' = {}
  /\ probed' = NoProbe
  /\ response' = NoResponse
  /\ UNCHANGED <<cacheVars, editorVars, parseVars, summaryVars, storeVars, iloVars, hookVars>>

SvcNext ==
  \/ \E s \in Kinds, a \in Actions, ids \in SeqsUpTo(RequestIds, MaxRequested) :
       BulkRequest(s, a, TRUE, ids)
  \/ \E s \in Kinds, a \in Actions : BulkRequest(s, a, FALSE, <<>>)
  \/ BulkRespond
  \/ \E c \in RequestIds, s \in Kinds, a \in Actions : SingleRequest(c, s, a)
  \/ SingleProbe
  \/ SingleRespond
  \/ \E c \in Channels, s \in Kinds, a \in Actions : ControlCall(c, s, a)
  \/ \E c \in Channels, s \in Kinds : ProbeCall(c, s)
  \/ \E i \in 1..Len(tasks) : ActionDone(i)
  \/ \E i \in 1..Len(tasks) : SettleDone(i)
  \/ \E i \in 1..Len(tasks) : IsActiveDone(i)
  \/ \E i \in 1..Len(tasks) : ShowDone(i)
  \/ RequestEnd

(***************************************************************************)
(* ConfigEditor and api.applyConfig / api.saveConfig.                      *)
(***************************************************************************)
\* the channel ids of the frontend: the backend's id is 5000 + id
FrontendIds == 1..ChannelCount

\* what a text input holds: "" stands for empty or undefined (both falsy)
Texts == {"", "x"}

\* what a port input holds: 0 stands for empty, undefined or 0 (all falsy)
Ports == {0, 80, 1024}

Modes == {"caller", "listener"}

\* the fields of ChannelConfig that validate reads
Configs ==
  [mode : Modes, targetHost : Texts, targetPort : Ports, listenPort : Ports,
   multicastEnabled : BOOLEAN, multicastDstIp : Texts,
   recordEnabled : BOOLEAN, recordPath : Texts,
   rtmpEnabled : BOOLEAN, rtmpUrl : Texts]

\* useState<ChannelConfig | null>(null)
NoConfig == [mode |-> ""]

\* what `if (cond) errs.push(msg)` adds to errs
PushIf(cond, msg) == IF cond THEN <<msg>> ELSE <<>>

\* ConfigEditor.validate of the caller-only editor: the messages it pushes
validateCallerOnly(c) ==
     PushIf(c.targetHost = "", "SRT target host is required")
  \o PushIf(c.targetPort = 0 \/ c.targetPort < 1024, "SRT target port must be >= 1024")
  \o PushIf(c.multicastEnabled /\ c.multicastDstIp = "",
            "Multicast IP is required when enabled")
  \o PushIf(c.recordEnabled /\ c.recordPath = "",
            "Record path is required when recording enabled")
  \o PushIf(c.rtmpEnabled /\ c.rtmpUrl = "", "RTMP URL is required when RTMP enabled")

\* a validate that reports the first violated rule only
validate_FirstOnly(c) ==
  LET srt == IF c.mode = "caller"
               THEN    PushIf(c.targetHost = "",
                              "SRT target host is required for caller mode")
                    \o PushIf(c.targetPort = 0 \/ c.targetPort < 1024,
                              "SRT target port must be >= 1024")
               ELSE PushIf(c.listenPort = 0 \/ c.listenPort < 1024,
                           "SRT listen port must be >= 1024")
      errs == srt
           \o PushIf(c.multicastEnabled /\ c.multicastDstIp = "",
                     "Multicast IP is required when enabled")
           \o PushIf(c.recordEnabled /\ c.recordPath = "",
                     "Record path is required when recording enabled")
           \o PushIf(c.rtmpEnabled /\ c.rtmpUrl = "",
                     "RTMP URL is required when RTMP enabled")
  IN IF errs = <<>> THEN errs ELSE <<Head(errs)>>

\* ConfigEditor.validate of the mode-aware editor: errs, in the order pushed
validate(c) ==
  LET srt == IF c.mode = "caller"
               THEN    PushIf(c.targetHost = "",
                              "SRT target host is required for caller mode")
                    \o PushIf(c.targetPort = 0 \/ c.targetPort < 1024,
                              "SRT target port must be >= 1024")
               ELSE PushIf(c.listenPort = 0 \/ c.listenPort < 1024,
                           "SRT listen port must be >= 1024")
      errs == srt
           \o PushIf(c.multicastEnabled /\ c.multicastDstIp = "",
                     "Multicast IP is required when enabled")
           \o PushIf(c.recordEnabled /\ c.recordPath = "",
                     "Record path is required when recording enabled")
           \o PushIf(c.rtmpEnabled /\ c.rtmpUrl = "",
                     "RTMP URL is required when RTMP enabled")
  IN errs

\* handleApply: const servicesToRestart = ['rx', 'rec', 'rtmp']
servicesToRestart == <<"rx", "rec", "rtmp">>

\* realApi.saveConfig: PUT /api/channels/<channelId>/config
SaveEndpoint(id) == "/api/channels/" \o ToString(id) \o "/config"

\* realApi.restartService: POST /api/services/<5000 + channelId>/<service>/restart
RestartEndpoint(id, service) ==
  "/api/services/" \o ToString(5000 + id) \o "/" \o service \o "/restart"

\* an API call: state is "pending", "ok" or "failed"
SaveCall(id, cfg) ==
  [op |-> "save", service |-> "", endpoint |-> SaveEndpoint(id),
   config |-> cfg, state |-> "pending"]

RestartCall(id, service) ==
  [op |-> "restart", service |-> service, endpoint |-> RestartEndpoint(id, service),
   config |-> NoConfig, state |-> "pending"]

\* ApiResponse values: { success: true }, and the failure fetchApi builds for
\* a call, told apart by the endpoint that failed
Success == [success |-> TRUE, error |-> ""]

Failure(call) == [success |-> FALSE, error |-> "failed: " \o call.endpoint]

NoFlow == [pc |-> "idle", op |-> "", live |-> FALSE, config |-> NoConfig, next |-> 0]

NotValidated == [ran |-> FALSE, ok |-> FALSE, errs |-> <<>>]

NotApplied == [returned |-> FALSE, op |-> "", result |-> Success]

\* the last call of the log ends in `state`
EndCall(log, state) == [log EXCEPT ![Len(log)].state = state]

\* how a call may end: fetchApi succeeds or fails; the mock API always succeeds
CallOutcomes(live) == IF live THEN {"ok", "failed"} ELSE {"ok"}

EditorInit ==
  /\ channelId = 0
  /\ config = NoConfig
  /\ hasChanges = FALSE
  /\ validated = NotValidated
  /\ flow = NoFlow
  /\ calls = <<>>
  /\ applied = NotApplied

\* the editor is mounted on channel id and fetchConfig loads the stored config
FetchConfig(id, cfg) ==
  /\ channelId = 0
  /\ channelId' = id
  /\ config' = cfg
  /\ hasChanges' = FALSE
  /\ UNCHANGED <<validated, flow, calls, applied>>
  /\ UNCHANGED <<cacheVars, svcVars, parseVars, summaryVars, storeVars, iloVars, hookVars>>

\* updateSrtConfig / updateRxConfig / updateRecConfig / updateRtmpConfig: the
\* user changes one field.  A handler keeps the config of the render that
\* created it, so an edit made while a flow runs cannot reach that flow:
\* edits are taken between flows.
UpdateConfig(field, value) ==
  /\ config # NoConfig
  /\ flow.pc = "idle"
  /\ config' = [config EXCEPT ![field] = value]
  /\ hasChanges' = TRUE
  /\ validated' = NotValidated
  /\ calls' = <<>>
  /\ applied' = NotApplied
  /\ UNCHANGED <<channelId, flow>>
  /\ UNCHANGED <<cacheVars, svcVars, parseVars, summaryVars, storeVars, iloVars, hookVars>>

updateSrtConfig ==
  \/ \E m \in Modes : UpdateConfig("mode", m)
  \/ \E t \in Texts : UpdateConfig("targetHost", t)
  \/ \E n \in Ports : UpdateConfig("targetPort", n)
  \/ \E n \in Ports : UpdateConfig("listenPort", n)

updateRxConfig ==
  \/ \E b \in BOOLEAN : UpdateConfig("multicastEnabled", b)
  \/ \E t \in Texts : UpdateConfig("multicastDstIp", t)

updateRecConfig ==
  \/ \E b \in BOOLEAN : UpdateConfig("recordEnabled", b)
  \/ \E t \in Texts : UpdateConfig("recordPath", t)

updateRtmpConfig ==
  \/ \E b \in BOOLEAN : UpdateConfig("rtmpEnabled", b)
  \/ \E t \in Texts : UpdateConfig("rtmpUrl", t)

\* what validate() returns and hands to setErrors
Validated(c) == [ran |-> TRUE, ok |-> Len(validate(c)) = 0, errs |-> validate(c)]

\* api.saveConfig / api.applyConfig up to their first await: in live mode the
\* PUT is issued, mockApi.applyConfig first waits
FlowStarts(op, live) ==
  /\ flow' = [pc |-> IF ~live /\ op = "apply" THEN "delay" ELSE "save",
              op |-> op, live |-> live, config |-> config, next |-> 0]
  /\ calls' = IF ~live /\ op = "apply" THEN <<>> ELSE <<SaveCall(channelId, config)>>

\* a handleSave / handleApply that calls the API whatever validate() returns
StartFlow_Unvalidated(op) ==
  /\ config # NoConfig
  /\ flow.pc = "idle"
  /\ hasChanges
  /\ validated' = Validated(config)
  /\ applied' = NotApplied
  /\ \E live \in BOOLEAN : FlowStarts(op, live)
  /\ UNCHANGED <<channelId, config, hasChanges>>
  /\ UNCHANGED <<cacheVars, svcVars, parseVars, summaryVars, storeVars, iloVars, hookVars>>

\* handleSave (op = "save") and handleApply (op = "apply") from the click to
\* their await: `if (!config || !validate()) return`, then the API call
StartFlow(op) ==
  /\ config # NoConfig
  /\ flow.pc = "idle"
  /\ hasChanges
  /\ validated' = Validated(config)
  /\ applied' = NotApplied
  /\ IF ~Validated(config).ok
       THEN /\ flow' = NoFlow
            /\ calls' = <<>>
       ELSE \E live \in BOOLEAN : FlowStarts(op, live)
  /\ UNCHANGED <<channelId, config, hasChanges>>
  /\ UNCHANGED <<cacheVars, svcVars, parseVars, summaryVars, storeVars, iloVars, hookVars>>

handleSave == StartFlow("save")

handleApply == StartFlow("apply")

\* mockApi.applyConfig: `await delay(1500)` is over, saveConfig is called
MockDelayDone ==
  /\ flow.pc = "delay"
  /\ flow' = [flow EXCEPT !.pc = "save"]
  /\ calls' = <<SaveCall(channelId, flow.config)>>
  /\ validated' = NotValidated
  /\ applied' = NotApplied
  /\ UNCHANGED <<channelId, config, hasChanges>>
  /\ UNCHANGED <<cacheVars, svcVars, parseVars, summaryVars, storeVars, iloVars, hookVars>>

\* the flow returns `result` to handleSave / handleApply, which clears
\* hasChanges on success
FlowReturns(result) ==
  /\ flow' = NoFlow
  /\ applied' = [returned |-> TRUE, op |-> flow.op, result |-> result]
  /\ hasChanges' = IF result.success THEN FALSE ELSE hasChanges

\* applyConfig goes on with the restart of servicesToRestart[k]
FlowRestarts(log, k) ==
  /\ flow' = [flow EXCEPT !.pc = "restart", !.next = k]
  /\ calls' = Append(log, RestartCall(channelId, servicesToRestart[k]))
  /\ applied' = NotApplied
  /\ hasChanges' = hasChanges

\* saveConfig ends.  handleSave gets its result; applyConfig returns it if it
\* failed (realApi) and goes on to the first restart otherwise
SaveDone ==
  /\ flow.pc = "save"
  /\ validated' = NotValidated
  /\ \E out \in CallOutcomes(flow.live) :
       LET log == EndCall(calls, out)
       IN IF flow.op = "save" \/ out = "failed"
            THEN /\ calls' = log
                 /\ FlowReturns(IF out = "ok" THEN Success ELSE Failure(log[Len(log)]))
            ELSE FlowRestarts(log, 1)
  /\ UNCHANGED <<channelId, config>>
  /\ UNCHANGED <<cacheVars, svcVars, parseVars, summaryVars, storeVars, iloVars, hookVars>>

\* an applyConfig whose loop ignores the result of restartService
RestartDone_IgnoresFailure ==
  /\ flow.pc = "restart"
  /\ validated' = NotValidated
  /\ \E out \in CallOutcomes(flow.live) :
       LET log == EndCall(calls, out)
       IN IF flow.next < Len(servicesToRestart)
            THEN FlowRestarts(log, flow.next + 1)
            ELSE /\ calls' = log
                 /\ FlowReturns(Success)
  /\ UNCHANGED <<channelId, config>>
  /\ UNCHANGED <<cacheVars, svcVars, parseVars, summaryVars, storeVars, iloVars, hookVars>>

\* restartService ends.  realApi.applyConfig returns the failed result, or
\* goes on to the next service, or returns { success: true } after the last;
\* mockApi's restartService always succeeds
RestartDone ==
  /\ flow.pc = "restart"
  /\ validated' = NotValidated
  /\ \E out \in CallOutcomes(flow.live) :
       LET log == EndCall(calls, out)
       IN IF out = "failed"
            THEN /\ calls' = log
                 /\ FlowReturns(Failure(log[Len(log)]))
          ELSE IF flow.next < Len(servicesToRestart)
            THEN FlowRestarts(log, flow.next + 1)
          ELSE /\ calls' = log
               /\ FlowReturns(Success)
  /\ UNCHANGED <<channelId, config>>
  /\ UNCHANGED <<cacheVars, svcVars, parseVars, summaryVars, storeVars, iloVars, hookVars>>

EditorNext ==
  \/ \E id \in FrontendIds, cfg \in Configs : FetchConfig(id, cfg)
  \/ updateSrtConfig
  \/ updateRxConfig
  \/ updateRecConfig
  \/ updateRtmpConfig
  \/ handleSave
  \/ handleApply
  \/ MockDelayDone
  \/ SaveDone
  \/ RestartDone

(***************************************************************************)
(* routes/channels.js: the channel store.                                  *)
(***************************************************************************)
\* the name a request body may carry
Names == {"Studio"}

\* getDefaultChannelConfig(id, name), reduced to the id and the name
getDefaultChannelConfig(id, name) ==
  [channelId |-> id,
   name |-> IF name = Absent THEN "Channel " \o ToString(id) ELSE name[1]]

\* req.body.channelId of POST /api/channels: missing, a string, zero, or the
\* number of a channel
CreateIds ==
  {[kind |-> "absent", value |-> 0], [kind |-> "string", value |-> channelStart],
   [kind |-> "number", value |-> 0]}
    \cup {[kind |-> "number", value |-> c] : c \in Channels}

\* `!channelId || typeof channelId !== 'number'`
BadChannelId(bodyId) == bodyId.kind # "number" \/ bodyId.value = 0

\* req.body of the two PUT routes: a name or none, a channelId or none
UpdateBodies ==
  [name : {Absent} \cup {Some(n) : n \in Names},
   channelId : {Absent} \cup {Some(c) : c \in Channels}]

\* channels.findIndex(c => c.channelId === id), 0 for -1
FindIndex(channels, id) ==
  LET at == {i \in 1..Len(channels) : channels[i].channelId = id}
  IN IF at = {} THEN 0 ELSE CHOOSE i \in at : \A j \in at : i <= j

\* channels.push(newChannel); channels.sort((a, b) => a.channelId - b.channelId)
RECURSIVE PushSorted(_, _)
PushSorted(channels, newChannel) ==
  IF channels = <<>> THEN <<newChannel>>
  ELSE IF channels[Len(channels)].channelId <= newChannel.channelId
    THEN Append(channels, newChannel)
  ELSE Append(PushSorted(SubSeq(channels, 1, Len(channels) - 1), newChannel),
              channels[Len(channels)])

\* channels.splice(index, 1)
Splice(channels, index) ==
  SubSeq(channels, 1, index - 1) \o SubSeq(channels, index + 1, Len(channels))

\* a merge in which the channelId of the body wins
Merged_BodyWins(entry, body, id) ==
  [channelId |-> IF body.channelId = Absent THEN entry.channelId ELSE body.channelId[1],
   name |-> IF body.name = Absent THEN entry.name ELSE body.name[1]]

\* { ...channels[index], ...req.body, channelId: id }
Merged(entry, body, id) ==
  [channelId |-> id,
   name |-> IF body.name = Absent THEN entry.name ELSE body.name[1]]

\* no DELETE in progress for the channel
NoDelete == [pending |-> FALSE, channels |-> <<>>, index |-> 0]

\* no response in the step just taken
NoStoreResponse == [route |-> "", id |-> 0, status |-> 0, foreign |-> FALSE]

\* foreign: the body carried a channelId other than the one of the URL
StoreResponse(route, id, status, asked) ==
  [route |-> route, id |-> id, status |-> status,
   foreign |-> asked # Absent /\ asked # Some(id)]

StoreInit ==
  /\ store = <<>>
  /\ deleting = [c \in Channels |-> NoDelete]
  /\ storeResponse = NoStoreResponse

\* POST /api/channels
CreateChannel(bodyId, name) ==
  /\ IF BadChannelId(bodyId)
       THEN /\ store' = store
            /\ storeResponse' = StoreResponse("create", 0, 400, Absent)
     ELSE IF FindIndex(store, bodyId.value) # 0
       THEN /\ store' = store
            /\ storeResponse' = StoreResponse("create", bodyId.value, 409, Absent)
     ELSE /\ store' = PushSorted(store, getDefaultChannelConfig(bodyId.value, name))
          /\ storeResponse' = StoreResponse("create", bodyId.value, 201, Absent)
  /\ UNCHANGED deleting
  /\ UNCHANGED <<cacheVars, svcVars, editorVars, parseVars, summaryVars, iloVars, hookVars>>

\* PUT /api/channels/:id
UpdateChannel(id, body) ==
  /\ LET index == FindIndex(store, id)
     IN IF index = 0
          THEN /\ store' = store
               /\ storeResponse' = StoreResponse("update", id, 404, body.channelId)
          ELSE /\ store' = [store EXCEPT ![index] = Merged(@, body, id)]
               /\ storeResponse' = StoreResponse("update", id, 200, body.channelId)
  /\ UNCHANGED deleting
  /\ UNCHANGED <<cacheVars, svcVars, editorVars, parseVars, summaryVars, iloVars, hookVars>>

\* PUT /api/channels/:id/config
PutChannelConfig(id, body) ==
  /\ LET index == FindIndex(store, id)
     IN IF index = 0
          THEN /\ store' = store
               /\ storeResponse' = StoreResponse("config", id, 404, body.channelId)
          ELSE /\ store' = [store EXCEPT ![index] = Merged(@, body, id)]
               /\ storeResponse' = StoreResponse("config", id, 200, body.channelId)
  /\ UNCHANGED deleting
  /\ UNCHANGED <<cacheVars, svcVars, editorVars, parseVars, summaryVars, iloVars, hookVars>>

\* DELETE /api/channels/:id, up to the await of the three
\* controlService(id, kind, 'stop') calls, whose failures are swallowed; one
\* DELETE at a time
DeleteChannelStart(id) ==
  /\ \A c \in Channels : ~deleting[c].pending
  /\ LET index == FindIndex(store, id)
     IN IF index = 0
          THEN /\ deleting' = deleting
               /\ storeResponse' = StoreResponse("delete", id, 404, Absent)
          ELSE /\ deleting' = [deleting EXCEPT
                                 ![id] = [pending |-> TRUE, channels |-> store,
                                          index |-> index]]
               /\ storeResponse' = NoStoreResponse
  /\ UNCHANGED store
  /\ UNCHANGED <<cacheVars, svcVars, editorVars, parseVars, summaryVars, iloVars, hookVars>>

\* DELETE /api/channels/:id, from the settling of the stops to res.json:
\* splice the array loaded before the await and save it
DeleteChannelDone(id) ==
  /\ deleting[id].pending
  /\ store' = Splice(deleting[id].channels, deleting[id].index)
  /\ deleting' = [deleting EXCEPT ![id] = NoDelete]
  /\ storeResponse' = StoreResponse("delete", id, 200, Absent)
  /\ UNCHANGED <<cacheVars, svcVars, editorVars, parseVars, summaryVars, iloVars, hookVars>>

StoreNext ==
  \/ \E bodyId \in CreateIds, name \in {Absent} \cup {Some(n) : n \in Names} :
       CreateChannel(bodyId, name)
  \/ \E id \in Channels, body \in UpdateBodies : UpdateChannel(id, body)
  \/ \E id \in Channels, body \in UpdateBodies : PutChannelConfig(id, body)
  \/ \E id \in Channels : DeleteChannelStart(id)
  \/ \E id \in Channels : DeleteChannelDone(id)

(***************************************************************************)
(* server.js: the iLO credentials and the connection test.                 *)
(***************************************************************************)
\* process.env.ILO_HOST || '' and the like, with no variable set
NoCredentials == [host |-> "", username |-> "", password |-> ""]

\* req.body of POST /api/ilo/credentials; '' stands for a missing field
CredentialBodies ==
  [host : {"", "ilo.lan"}, username : {"", "admin"}, password : {"", "stored"}]

\* req.body of POST /api/ilo/test
TestBodies ==
  [host : {"", "test.lan"}, username : {"", "tester"}, password : {"", "secret"}]

\* `!iloConfig.host || !iloConfig.username || !iloConfig.password`
NotConfigured(cfg) == cfg.host = "" \/ cfg.username = "" \/ cfg.password = ""

\* the ways the fetch of iloRequest can end: a 2xx response, a response that
\* is not ok, a network error
FetchOutcomes == {"ok", "not ok", "error"}

\* no test in flight
NoTest == [pending |-> FALSE, swapped |-> FALSE, originalConfig |-> NoCredentials]

\* no status request in flight
NoStatus == [pending |-> FALSE, used |-> NoCredentials]

\* no credentials read in the step just taken
NotSeen == [by |-> "", config |-> NoCredentials]

Seen(route, cfg) == [by |-> route, config |-> cfg]

NoIloResponse == [route |-> "", success |-> FALSE, error |-> ""]

IloResponse(route, success, error) ==
  [route |-> route, success |-> success, error |-> error]

\* what the catch blocks report for the way iloRequest failed
IloError(out) ==
  IF out = "not ok" THEN "iLO API error" ELSE "fetch failed"

IloInit ==
  /\ iloConfig = NoCredentials
  /\ iloStored = NoCredentials
  /\ iloTest = NoTest
  /\ iloStatus = NoStatus
  /\ iloSeen = NotSeen
  /\ iloResponse = NoIloResponse

\* POST /api/ilo/credentials
SetCredentials(body) ==
  /\ IF NotConfigured(body)
       THEN /\ UNCHANGED <<iloConfig, iloStored>>
            /\ iloResponse' = IloResponse("credentials", FALSE, "Missing required fields")
       ELSE /\ iloConfig' = body
            /\ iloStored' = body
            /\ iloResponse' = IloResponse("credentials", TRUE, "")
  /\ iloSeen' = NotSeen
  /\ UNCHANGED <<iloTest, iloStatus>>
  /\ UNCHANGED <<cacheVars, svcVars, editorVars, parseVars, summaryVars, storeVars, hookVars>>

\* GET /api/health
Health ==
  /\ iloSeen' = Seen("health", iloConfig)
  /\ iloResponse' = IloResponse("health", TRUE, "")
  /\ UNCHANGED <<iloConfig, iloStored, iloTest, iloStatus>>
  /\ UNCHANGED <<cacheVars, svcVars, editorVars, parseVars, summaryVars, storeVars, hookVars>>

\* POST /api/ilo/test, up to the await of fetch in iloRequest, or to the
\* response of the catch block when iloRequest throws at once
IloTestStart(body) ==
  /\ ~iloTest.pending
  /\ LET swapped == body.host # ""
         cfg == IF swapped THEN body ELSE iloConfig
     IN /\ iloConfig' = cfg
        /\ IF NotConfigured(cfg)
             THEN /\ iloTest' = NoTest
                  /\ iloResponse' =
                       IloResponse("test", FALSE, "iLO credentials not configured")
             ELSE /\ iloTest' = [pending |-> TRUE, swapped |-> swapped,
                                 originalConfig |-> iloConfig]
                  /\ iloResponse' = NoIloResponse
  /\ iloSeen' = NotSeen
  /\ UNCHANGED <<iloStored, iloStatus>>
  /\ UNCHANGED <<cacheVars, svcVars, editorVars, parseVars, summaryVars, storeVars, hookVars>>

\* POST /api/ilo/test, from the end of fetch to its response: restore the
\* credentials after a successful request, answer from the catch block
\* after a failed one
IloTestDone(out) ==
  /\ iloTest.pending
  /\ IF out = "ok"
       THEN /\ iloConfig' = IF iloTest.swapped THEN iloTest.originalConfig ELSE iloConfig
            /\ iloResponse' = IloResponse("test", TRUE, "")
       ELSE /\ iloConfig' = iloConfig
            /\ iloResponse' = IloResponse("test", FALSE, IloError(out))
  /\ iloTest' = NoTest
  /\ iloSeen' = NotSeen
  /\ UNCHANGED <<iloStored, iloStatus>>
  /\ UNCHANGED <<cacheVars, svcVars, editorVars, parseVars, summaryVars, storeVars, hookVars>>

\* GET /api/ilo/status, up to the await of its iloRequests, which read the
\* credentials when they are called
IloStatusStart ==
  /\ ~iloStatus.pending
  /\ iloSeen' = Seen("status", iloConfig)
  /\ IF NotConfigured(iloConfig)
       THEN /\ iloStatus' = NoStatus
            /\ iloResponse' =
                 IloResponse("status", FALSE, "iLO credentials not configured")
       ELSE /\ iloStatus' = [pending |-> TRUE, used |-> iloConfig]
            /\ iloResponse' = NoIloResponse
  /\ UNCHANGED <<iloConfig, iloStored, iloTest>>
  /\ UNCHANGED <<cacheVars, svcVars, editorVars, parseVars, summaryVars, storeVars, hookVars>>

\* GET /api/ilo/status, from the end of its requests to its response, which
\* reads iloConfig.host for the hostname
IloStatusDone(out) ==
  /\ iloStatus.pending
  /\ iloSeen' = Seen("status", iloConfig)
  /\ iloResponse' =
       IF out = "ok" THEN IloResponse("status", TRUE, "")
       ELSE IloResponse("status", FALSE, IloError(out))
  /\ iloStatus' = NoStatus
  /\ UNCHANGED <<iloConfig, iloStored, iloTest>>
  /\ UNCHANGED <<cacheVars, svcVars, editorVars, parseVars, summaryVars, storeVars, hookVars>>

IloNext ==
  \/ \E body \in CredentialBodies : SetCredentials(body)
  \/ Health
  \/ \E body \in TestBodies : IloTestStart(body)
  \/ \E out \in FetchOutcomes : IloTestDone(out)
  \/ IloStatusStart
  \/ \E out \in FetchOutcomes : IloStatusDone(out)

(***************************************************************************)
(* useStreamAnalysis: the polling hook of the single-channel analysis.     *)
(***************************************************************************)
\* the channelId argument: null (0) or a channel
HookChannels == {0} \cup Channels

\* the ways api.getStreamAnalysis can end: success with the analysis of an
\* available or of an unavailable stream, a result without success or
\* data, a rejection
HookOutcomes == {"available", "unavailable", "no data", "rejected"}

\* result.data of a fetch for channel c
HookData(c, out) == Some([channel |-> c, available |-> out = "available"])

\* the calls of api.getStreamAnalysis awaiting their response
HookInFlight == SumOver(hookFetches, Channels)

HookInit ==
  /\ hookChannel = 0
  /\ hookAnalysis = Absent
  /\ hookLoading = FALSE
  /\ hookError = ""
  /\ hookInterval = 0
  /\ hookFetches = [c \in Channels |-> 0]

\* a render with another channelId: the cleanup of the previous effect
\* clears its interval, then the effect runs: setAnalysis(null) for null,
\* else a first fetchAnalysis up to its await and a new interval
SelectChannel(c) ==
  /\ c # hookChannel
  /\ hookChannel' = c
  /\ IF c = 0
       THEN /\ hookAnalysis' = Absent
            /\ hookInterval' = 0
            /\ UNCHANGED <<hookLoading, hookFetches>>
       ELSE /\ HookInFlight < NumCallers
            /\ hookAnalysis' = hookAnalysis
            /\ hookInterval' = c
            /\ hookLoading' = TRUE
            /\ hookFetches' = [hookFetches EXCEPT ![c] = @ + 1]
  /\ UNCHANGED hookError
  /\ UNCHANGED <<cacheVars, svcVars, editorVars, parseVars, summaryVars, storeVars, iloVars>>

\* the interval fires: fetchAnalysis of the render that set it, up to its
\* await
IntervalFires ==
  /\ hookInterval # 0
  /\ HookInFlight < NumCallers
  /\ hookLoading' = TRUE
  /\ hookFetches' = [hookFetches EXCEPT ![hookInterval] = @ + 1]
  /\ UNCHANGED <<hookChannel, hookAnalysis, hookError, hookInterval>>
  /\ UNCHANGED <<cacheVars, svcVars, editorVars, parseVars, summaryVars, storeVars, iloVars>>

\* fetchAnalysis of channel c, from the response to its end
FetchAnalysisDone(c, out) ==
  /\ hookFetches[c] > 0
  /\ hookFetches' = [hookFetches EXCEPT ![c] = @ - 1]
  /\ CASE out \in {"available", "unavailable"} ->
              /\ hookAnalysis' = HookData(c, out)
              /\ hookError' = ""
       [] out = "rejected" ->
              /\ hookAnalysis' = hookAnalysis
              /\ hookError' = "Failed to fetch stream analysis"
       [] OTHER -> UNCHANGED <<hookAnalysis, hookError>>
  /\ hookLoading' = FALSE
  /\ UNCHANGED <<hookChannel, hookInterval>>
  /\ UNCHANGED <<cacheVars, svcVars, editorVars, parseVars, summaryVars, storeVars, iloVars>>

HookNext ==
  \/ \E c \in HookChannels : SelectChannel(c)
  \/ IntervalFires
  \/ \E c \in Channels, out \in HookOutcomes : FetchAnalysisDone(c, out)

(***************************************************************************)
(* Specifications: one per part of the system, the other parts at rest.    *)
(***************************************************************************)
Init == CacheInit /\ SvcInit /\ EditorInit /\ ParseInit /\ SummaryInit /\ StoreInit
          /\ IloInit /\ HookInit

CacheSpec == Init /\ [][CacheNext]_vars

SvcSpec == Init /\ [][SvcNext]_vars

EditorSpec == Init /\ [][EditorNext]_vars

ParseSpec == Init /\ [][ParseNext]_vars

SummarySpec == Init /\ [][SummaryNext]_vars

StoreSpec == Init /\ [][StoreNext]_vars

IloSpec == Init /\ [][IloNext]_vars

HookSpec == Init /\ [][HookNext]_vars

(***************************************************************************)
(* Properties of the analysis cache.                                       *)
(***************************************************************************)
\* a step in which an invocation for c misses the cache and goes on to sample
StartsSample(c) == checking'[c] = checking[c] + 1

\* a step in which an invocation for c returns the cached sample
ReturnsCached(c) == returned'.chan = c /\ ~returned'.missed

\* C1: two gets for a channel within the TTL window issue one sample, and a
\* get after the TTL has elapsed issues another.  The second get here follows
\* at once, with nothing in flight, a get for the same channel that ran the
\* analyzer: it must not sample again; and a get that finds the
\* entry as old as the TTL must not be answered from the cache.
C1_OneSamplePerTtlWindow ==
  [][\A c \in Analyzed :
       /\ (returned.chan = c /\ returned.invoked /\ InFlight(c) = 0)
            => ~StartsSample(c)
       /\ (analysisCache[c].present /\ now - analysisCache[c].timestamp >= CACHE_TTL_MS)
            => ~ReturnsCached(c)]_vars

\* C2: the result of a fresh sample is in the cache when get returns it,
\* also when it is an unavailable result.
C2_MissResultStored ==
  returned.missed =>
    /\ analysisCache[returned.chan].present
    /\ analysisCache[returned.chan].data = returned.result

\* C3: when concurrent gets for a channel all miss, at most two analyzer
\* processes run for it, and when the last of them returns the cache holds a
\* fresh sample for the channel.
C3_RaceIsBenign ==
  \A c \in Analyzed :
    /\ analyzing[c] <= 2
    /\ (raced[c] /\ InFlight(c) = 0 /\ returned.chan = c /\ returned.missed)
         => CacheFresh(analysisCache[c])

(***************************************************************************)
(* Properties of the bulk route and of controlService / getServiceStatus.  *)
(***************************************************************************)
\* the bulk request passed the service, action and target checks
BulkRunning == req.type = "bulk" /\ response.status # 400

\* the bulk request has been answered with the per-channel detail
BulkAnswered == req.type = "bulk" /\ response.status = 200

Rejected == {i \in 1..Len(tasks) : tasks[i].pc = "rejected"}

FailedEntries == {i \in 1..Len(response.results) : ~response.results[i].success}

\* the channels a list names
ChannelsOf(ids) == {ids[i] : i \in 1..Len(ids)}

C10_RejectedBeforeSupervisor ==
  /\ (req.type = "control" /\ req.service \in validServices
        /\ req.action \notin validActions) =>
       /\ tasks[1].pc = "rejected"
       /\ tasks[1].err = "Invalid action"
       /\ commands = {}
  /\ (req.type \in {"control", "probe"} /\ req.service \notin validServices) =>
       /\ tasks[1].pc = "rejected"
       /\ tasks[1].err = "Unknown service type"
       /\ commands = {}

(***************************************************************************)
(* Properties of the configuration editor's save and apply flows.          *)
(***************************************************************************)
\* the call of the log that failed, if one did
FailedCalls == {i \in 1..Len(calls) : calls[i].state = "failed"}

\* C7: applyConfig restarts the kinds of servicesToRestart one after the
\* other in list order and stops at the first failure: the k-th restart it
\* issues is that of the k-th kind, a call is issued only when every call
\* before it has succeeded (so nothing is attempted after a failed restart),
\* applyConfig returns the failure of the call that failed, and it returns
\* success only once every kind has been restarted.
C7_RestartsFailFast ==
  /\ \A i \in 2..Len(calls) :
       /\ calls[i].op = "restart"
       /\ calls[i].service = servicesToRestart[i - 1]
  /\ \A i \in 1..(Len(calls) - 1) : calls[i].state = "ok"
  /\ (applied.returned /\ FailedCalls # {}) =>
       applied.result = Failure(calls[Len(calls)])
  /\ (applied.returned /\ applied.op = "apply" /\ applied.result.success) =>
       /\ Len(calls) = 1 + Len(servicesToRestart)
       /\ FailedCalls = {}

\* C7 witness: applyConfig has returned after the restart of the first kind
\* failed
C7_Witness ==
  /\ applied.returned
  /\ Len(calls) = 2
  /\ calls[2].service = servicesToRestart[1]
  /\ calls[2].state = "failed"
  /\ applied.result = Failure(calls[2])

\* C8: in the save and apply flows validation comes before persistence and
\* persistence before every restart: the only save is the first call and it
\* sends the editor's config, which has no violation; a config that validate
\* rejects starts no call at all; and a restart is only issued after the
\* save has succeeded.
C8_ValidateSaveRestart ==
  /\ \A i \in 1..Len(calls) :
       /\ calls[i].op = "save" =>
            /\ i = 1
            /\ calls[i].config = config
            /\ Len(validate(calls[i].config)) = 0
       /\ calls[i].op = "restart" =>
            /\ i > 1
            /\ calls[1].op = "save"
            /\ calls[1].state = "ok"
  /\ flow.pc # "idle" => Len(validate(flow.config)) = 0
  /\ (validated.ran /\ ~validated.ok) => (calls = <<>> /\ flow = NoFlow)

\* C8 witness: a restart is awaited in a live apply
C8_Witness ==
  /\ flow.pc = "restart"
  /\ flow.live
  /\ calls[Len(calls)].state = "pending"

\* the rule a message of validate reports
RuleOf(msg) ==
  CASE msg = "SRT target host is required for caller mode" -> "targetHost"
    [] msg = "SRT target host is required"                 -> "targetHost"
    [] msg = "SRT target port must be >= 1024"             -> "targetPort"
    [] msg = "SRT listen port must be >= 1024"             -> "listenPort"
    [] msg = "Multicast IP is required when enabled"       -> "multicastDstIp"
    [] msg = "Record path is required when recording enabled" -> "recordPath"
    [] msg = "RTMP URL is required when RTMP enabled"      -> "rtmpUrl"
    [] OTHER                                               -> "?"

\* the rules a config violates
ViolatedRules(c) ==
  {r \in {"targetHost", "targetPort", "listenPort",
          "multicastDstIp", "recordPath", "rtmpUrl"} :
     \/ r = "targetHost"     /\ c.mode = "caller"   /\ c.targetHost = ""
     \/ r = "targetPort"     /\ c.mode = "caller"   /\ ~(c.targetPort >= 1024)
     \/ r = "listenPort"     /\ c.mode = "listener" /\ ~(c.listenPort >= 1024)
     \/ r = "multicastDstIp" /\ c.multicastEnabled  /\ c.multicastDstIp = ""
     \/ r = "recordPath"     /\ c.recordEnabled     /\ c.recordPath = ""
     \/ r = "rtmpUrl"        /\ c.rtmpEnabled       /\ c.rtmpUrl = ""}

\* errs has exactly one message for every rule that c violates
ReportsAll(errs, c) ==
  /\ {RuleOf(errs[i]) : i \in 1..Len(errs)} = ViolatedRules(c)
  /\ Len(errs) = Cardinality(ViolatedRules(c))

ControlSteps(action, pc) ==
  CASE pc = "action"   -> {<<action>>}
    [] pc = "settle"   -> {<<action, "delay">>}
    [] pc = "isactive" -> {<<action, "delay", "is-active">>}
    [] pc = "show"     -> {<<action, "delay", "is-active", "show">>}
    [] pc = "fulfilled" -> {<<action, "delay", "is-active">>,
                            <<action, "delay", "is-active", "show">>}
    [] OTHER           -> {<<>>, <<action>>}

\* C11: a control runs the supervisor action, then the settle delay, then the
\* probe (is-active, show), each once and in that order, and completes with
\* the status object of that probe; a control whose action fails is rejected
\* with the error of that command after the one attempt, with no delay and
\* no probe.
C11_ActionSettleProbe ==
  req.type \in {"control", "bulk"} =>
    /\ \A i \in 1..Len(tasks) :
         /\ tasks[i].log \in ControlSteps(req.action, tasks[i].pc)
         /\ (tasks[i].pc = "rejected" /\ tasks[i].log # <<>>) =>
              tasks[i].err = "Command failed: " \o CommandLine(req.action, UnitOf(i), TRUE)
    /\ (req.type = "control" /\ probed # NoProbe) =>
         /\ tasks[1].pc = "fulfilled"
         /\ probed.error = "" =>
              /\ tasks[1].log = <<req.action, "delay", "is-active", "show">>
              /\ probed.status = StatusOf(probed.read.active, probed.read.load)

\* C11 witness: a control has completed with the state its probe read
C11_Witness ==
  /\ req.type = "control"
  /\ tasks[1].pc = "fulfilled"
  /\ tasks[1].log = <<req.action, "delay", "is-active", "show">>
  /\ probed.status = "running"

\* a status object has just been returned to a caller of getServiceStatus or
\* controlService
Probed == req.type \in {"control", "probe"} /\ probed # NoProbe

\* C12: in every status object returned by getServiceStatus the pid is
\* present exactly when the status is running or stopping.
C12_PidIffRunningOrStopping ==
  Probed => (probed.pid # 0 <=> probed.status \in {"running", "stopping"})

\* C13: getServiceStatus maps active to running, activating to starting,
\* deactivating to stopping, failed to error, any other reading to not-found
\* when LoadState is not-found and to stopped otherwise; so a unit that is
\* not found is never reported stopped and a loaded inactive unit never
\* not-found.
C13_StatusMapping ==
  (Probed /\ probed.error = "") =>
    LET a == probed.read.active
        l == probed.read.load
        named == {"active", "activating", "deactivating", "failed"}
    IN /\ a = "active"       => probed.status = "running"
       /\ a = "activating"   => probed.status = "starting"
       /\ a = "deactivating" => probed.status = "stopping"
       /\ a = "failed"       => probed.status = "error"
       /\ (a \notin named /\ l = "not-found") => probed.status = "not-found"
       /\ (a \notin named /\ l # "not-found") => probed.status = "stopped"
       /\ l = "not-found" => probed.status # "stopped"
       /\ (l = "loaded" /\ a = "inactive") => probed.status # "not-found"

\* C13 witness: a unit that is not found is reported as not-found
C13_Witness ==
  /\ Probed
  /\ probed.read.active = "inactive"
  /\ probed.read.load = "not-found"
  /\ probed.status = "not-found"

\* an is-active that exited non-zero and printed 'inactive' for a loaded unit
\* is reported as stopped, without error
InactiveIsStopped ==
  (Probed /\ probed.read.code # 0 /\ probed.read.active = "inactive"
     /\ probed.read.load = "loaded") =>
    (probed.status = "stopped" /\ probed.error = "")

\* C14 as stated: an inactive reading is a stopped status, and every other
\* failure of a supervisor call leaves the call as a failure: no call whose
\* query failed completes with a status object.
C14_FailuresPropagate ==
  /\ InactiveIsStopped
  /\ Probed => probed.status # "unknown"

\* C14, amended: an inactive reading is a stopped status; a failed control
\* action rejects controlService with the error text of that command; a
\* failed is-active (one that printed nothing) or show query is caught by
\* getServiceStatus, which completes with status unknown and the error text
\* of that command, so that getServiceStatus never rejects once it has
\* issued a command and a control whose probe failed still completes.
C14_FailuresPropagateOrUnknown ==
  /\ InactiveIsStopped
  /\ req.type \in {"control", "probe"} =>
       \A i \in 1..Len(tasks) :
         /\ (tasks[i].pc = "rejected" /\ tasks[i].log # <<>>) =>
              /\ req.type = "control"
              /\ tasks[i].log = <<req.action>>
              /\ tasks[i].err = "Command failed: "
                                  \o CommandLine(req.action, UnitOf(i), TRUE)
         /\ (Probed /\ probed.status = "unknown") =>
              /\ tasks[i].pc = "fulfilled"
              /\ probed.pid = 0
              /\ probed.error = "Command failed: "
                   \o CommandLine(tasks[i].log[Len(tasks[i].log)], UnitOf(i), FALSE)

\* C14 witness: a control has completed although the show query of its probe
\* failed
C14_Witness ==
  /\ req.type = "control"
  /\ Probed
  /\ probed.status = "unknown"
  /\ tasks[1].pc = "fulfilled"
  /\ tasks[1].log[Len(tasks[1].log)] = "show"

\* C16 as stated: a call of either entry point that returns without having
\* run the analyzer while the channel's FIFO is missing has checked the FIFO
\* and returns an unavailable (analyzeChannel) or null (getChannelBitrate)
\* result.
C16_FeedCheckedFirst ==
  /\ (returned.chan # 0 /\ ~returned.invoked /\ ~fifo[returned.chan]) =>
       (returned.missed /\ ~returned.result.available)
  /\ (measured.chan # 0 /\ ~measured.invoked /\ ~fifo[measured.chan]) =>
       ~measured.value.present

\* C16, amended: the analyzer (tsanalyze, tsbitrate) is started only by a
\* call whose checkFifoExists has just found the FIFO; a call whose check
\* finds it missing returns at once, 'Stream not available (FIFO not found)'
\* from analyzeChannel and null from getChannelBitrate, and starts no
\* analyzer; analyzeChannel checks the FIFO only after a cache miss, and a
\* fresh cache entry is returned without any check.
C16_FeedCheckedBeforeAnalyzer ==
  [][\A c \in Analyzed :
       /\ analyzing'[c] > analyzing[c] => (fifo[c] /\ checking'[c] < checking[c])
       /\ sampling'[c] > sampling[c] => fifo[c]
       /\ (checking'[c] < checking[c] /\ ~fifo[c]) =>
            /\ returned'.chan = c /\ returned'.missed /\ ~returned'.invoked
            /\ ~returned'.result.available
            /\ returned'.result.error = "Stream not available (FIFO not found)"
            /\ analyzing' = analyzing /\ sampling' = sampling
       /\ (returned'.chan = c /\ ~returned'.missed) =>
            /\ CacheFresh(analysisCache[c])
            /\ returned'.result = analysisCache[c].data
            /\ checking' = checking /\ analyzing' = analyzing
       /\ (returned'.chan = c /\ ~returned'.invoked /\ returned'.missed) =>
            ~fifo[c]
       /\ (measured'.chan = c /\ ~measured'.invoked) =>
            /\ ~fifo[c]
            /\ measured' = Measure(c, FALSE, NoData)
            /\ analyzing' = analyzing /\ sampling' = sampling
       /\ (measured'.chan = c /\ measured'.invoked) => sampling'[c] < sampling[c]]_vars

\* C16 witness: analyzeChannel has returned 'FIFO not found' without running
\* the analyzer
C16_Witness ==
  /\ returned.chan # 0
  /\ returned.missed /\ ~returned.invoked
  /\ ~fifo[returned.chan]
  /\ returned.result.error = "Stream not available (FIFO not found)"
  /\ analyzing[returned.chan] = 0

\* the reasons analyzeChannel gives, by cause
ReasonOf(cause) ==
  CASE cause = "feed"    -> "Stream not available (FIFO not found)"
    [] cause = "parse"   -> "Failed to parse stream analysis"
    [] cause = "timeout" -> "No stream data (timeout)"
    [] OTHER             -> "error.message"

\* why the analyzeChannel call that has just returned failed
CauseOf ==
  CASE ~returned.invoked               -> "feed"
    [] ended \in {"garbage", "empty"}  -> "parse"
    [] ended = "timeout"               -> "timeout"
    [] OTHER                           -> "failed"

Reported == IF jsonOutput.pids = Absent THEN <<>> ELSE jsonOutput.pids[1]

\* parseTsAnalyzeOutput has returned an analysis of the output
Parsed == analysis.done /\ analysis.ok

\* C18: PID 8191 is in no PID table that parseTsAnalyzeOutput returns,
\* whatever bitrate tsanalyze reports for it.
C18_NullPidNotReturned ==
  Parsed => \A i \in 1..Len(analysis.pids) : analysis.pids[i].pid # 8191

\* the bitrate of the k-th returned PID as a share of `total`, to one decimal
ShareOf(k, total) ==
  LET hundredfold == analysis.pids[k].bitrate * 100
      tenths == (hundredfold \div total) * 10
                  + (((hundredfold % total) * 20) + total) \div (2 * total)
  IN ToString(tenths \div 10) \o "." \o ToString(tenths % 10)

\* C19: every returned PID's percentage is 100 x its bitrate / total bitrate
\* when the total is not 0, an absent bitrate counting as the 0 the PID's
\* bitrate field shows, and 0.0 when the total is 0 or absent; parse does not
\* fail on any such payload.
C19_PercentageOfTotal ==
  (analysis.done /\ jsonOutput.json) =>
    /\ analysis.ok
    /\ Len(analysis.pids) = Len(Reported)
    /\ \A k \in 1..Len(analysis.pids) :
         IF analysis.bitrate.total = 0
           THEN analysis.pids[k].percentage = "0.0"
           ELSE analysis.pids[k].percentage = ShareOf(k, analysis.bitrate.total)

\* how many entries of seq satisfy x
CountOf(seq, x) == Cardinality({i \in 1..Len(seq) : seq[i] = x})

\* PID and raw bitrate (0 when absent) of each reported entry, and of each
\* returned entry
ReportedPairs ==
  [i \in 1..Len(Reported) |->
     <<Reported[i].pid,
       IF Reported[i].bitrate = Absent THEN 0 ELSE Reported[i].bitrate[1]>>]

ReturnedPairs ==
  [i \in 1..Len(analysis.pids) |-> <<analysis.pids[i].pid, analysis.pids[i].bitrate>>]

\* C20: the returned PID list is a permutation of the reported PIDs, in
\* order of non-increasing raw bitrate, a PID without bitrate counting as 0.
C20_SortedPermutation ==
  Parsed =>
    /\ Len(ReturnedPairs) = Len(ReportedPairs)
    /\ \A i \in 1..Len(ReportedPairs) :
         CountOf(ReturnedPairs, ReportedPairs[i]) = CountOf(ReportedPairs, ReportedPairs[i])
    /\ \A i, j \in 1..Len(analysis.pids) :
         i < j => analysis.pids[i].bitrate >= analysis.pids[j].bitrate

\* C20 witness: a list reported in ascending order, with a PID that has no
\* bitrate first, has been returned reordered
C20_Witness ==
  /\ Parsed
  /\ Len(Reported) >= 2
  /\ Reported[1].bitrate = Absent
  /\ Reported[2].bitrate = Some(17000000)
  /\ analysis.pids[1].pid = Reported[2].pid
  /\ analysis.pids[1].pid # Reported[1].pid
  /\ analysis.pids[2].bitrate = 0

\* C21: getServiceStatus reports no uptime whenever ActiveEnterTimestamp is
\* absent or cannot be parsed as a time, and reports one only for a timestamp
\* that parses to an instant not later than now.
C21_UptimeOmittedUnlessParsed ==
  (Probed /\ probed.error = "") =>
    /\ probed.read.timestamp \notin DOMAIN InstantOf => probed.uptime = NoValue
    /\ probed.uptime # NoValue =>
         /\ probed.read.timestamp \in DOMAIN InstantOf
         /\ InstantOf[probed.read.timestamp] <= probed.read.clock

\* the single route has answered
SingleAnswered == req.type = "single" /\ response.status # 0

\* C23: a single-service control request that does not succeed ends in
\* exactly one of not-found (the channel id is unknown), invalid-input (the
\* service or the action is not recognized) and upstream-failure (a
\* supervisor call failed); the first two are answered without any
\* supervisor call, the third only after one.
C23_ThreeFailureOutcomes ==
  SingleAnswered =>
    LET known == IsValidId(req.ids[1])
        recognized == req.service \in validServices /\ req.action \in validActions
    IN /\ response.status \in {200, 400, 404, 500}
       /\ response.success <=> response.status = 200
       /\ response.status = 404 <=> ~known
       /\ response.status = 400 <=> (known /\ ~recognized)
       /\ response.status \in {400, 404} => (commands = {} /\ tasks = <<>>)
       /\ response.status = 500 =>
            /\ tasks[1].pc = "rejected"
            /\ tasks[1].log = <<req.action>>
            /\ Command(UnitOf(1), req.action) \in commands
            /\ response.error = "Command failed: "
                                  \o CommandLine(req.action, UnitOf(1), TRUE)
       /\ response.status = 200 =>
            /\ Len(tasks) = 2
            /\ \A i \in 1..2 : tasks[i].pc = "fulfilled"

\* C23 witness: the single route has answered 500 after the action failed
C23_Witness ==
  /\ SingleAnswered
  /\ response.status = 500
  /\ tasks[1].log = <<req.action>>
  /\ commands # {}

C24_FreshEntryServedUnchecked ==
  [][\A c \in Analyzed :
       /\ CacheFresh(analysisCache[c]) => checking'[c] <= checking[c]
       /\ (returned'.chan = c /\ ~returned'.missed) =>
            /\ CacheFresh(analysisCache[c])
            /\ returned'.result = analysisCache[c].data
            /\ returned'.result.available
            /\ ~returned'.invoked
            /\ UNCHANGED <<checking, analyzing, sampling, analysisCache, fifo>>
       /\ (returned'.chan = c /\ returned'.missed) =>
            (checking'[c] < checking[c] \/ analyzing'[c] < analyzing[c])]_vars

\* C24 witness: a call has returned the cached analysis, taken one tick
\* earlier, for a channel whose FIFO is gone
C24_Witness ==
  /\ returned.chan # 0
  /\ ~returned.missed
  /\ returned.result.available
  /\ ~fifo[returned.chan]
  /\ now - returned.result.at = TickMs

\* C26: the timestamp of a channel's cache entry never decreases; an entry
\* changes only when an invocation for the channel returns after running
\* the analyzer, and it is then that invocation's analysis with the time of
\* its return, whatever the entry held before; an entry is never removed.
C26_LastWriterWins ==
  [][\A c \in Analyzed :
       /\ analysisCache'[c].timestamp >= analysisCache[c].timestamp
       /\ analysisCache[c].present => analysisCache'[c].present
       /\ analysisCache'[c] # analysisCache[c] =>
            /\ analyzing'[c] < analyzing[c]
            /\ returned'.chan = c /\ returned'.invoked
            /\ returned'.result.available
            /\ analysisCache'[c] =
                 [present |-> TRUE, timestamp |-> now', data |-> returned'.result]
            /\ returned'.result.at = now']_vars

\* C26 witness: an invocation that overlapped another one for its channel
\* has returned after time has passed, and the entry is its analysis
C26_Witness ==
  /\ returned.chan # 0
  /\ returned.invoked
  /\ raced[returned.chan]
  /\ analysisCache[returned.chan].present
  /\ analysisCache[returned.chan].data = returned.result
  /\ analysisCache[returned.chan].timestamp = now
  /\ now > 0

\* C22: the summary of all channels goes through getChannelBitrate only: no
\* step of it starts a FIFO check of analyzeChannel or the tsanalyze
\* process or changes analysisCache, and what it reports for a channel
\* whose FIFO is missing is unavailable whatever the cache holds; a
\* channel's cache entry changes only in the return of an analyzeChannel
\* invocation for that channel.
C22_SummaryLeavesCacheAlone ==
  [][/\ summary' # summary =>
          /\ UNCHANGED <<analysisCache, checking, analyzing>>
          /\ ended' = NotEnded
          /\ returned' = NoReturn
     /\ \A c \in Analyzed :
          /\ (summary[c].stage = "idle" /\ summary'[c].stage # "idle" /\ ~fifo[c]) =>
               summary'[c] = SummaryEntry(NoData)
          /\ (summary[c].stage = "idle" /\ summary'[c].stage # "idle" /\ fifo[c]) =>
               summary'[c] = Sampling
          /\ analysisCache'[c] # analysisCache[c] =>
               /\ returned'.chan = c /\ returned'.invoked
               /\ analyzing'[c] < analyzing[c]
               /\ UNCHANGED summaryVars]_vars

\* C22 witness: the summary is about to answer unavailable for a channel
\* whose cache entry is fresh, and available for another channel
C22_Witness ==
  /\ SummaryReady
  /\ \E i \in 1..ChannelCount :
       /\ getChannelIds[i] \in Analyzed
       /\ CacheFresh(analysisCache[getChannelIds[i]])
       /\ ~SummaryResults[i].available
  /\ \E i \in 1..ChannelCount : SummaryResults[i].available

\* C27: when a DELETE of channel A completes, every entry of another
\* channel that the store held just before, the ones created or updated
\* while the DELETE waited for A's services to stop included, is still in
\* the store, and A's entry is gone.
C27_DeleteLosesNoWrite ==
  [][\A a \in Channels :
       (deleting[a].pending /\ ~deleting'[a].pending) =>
         /\ \A i \in 1..Len(store) :
              store[i].channelId # a => \E j \in 1..Len(store') : store'[j] = store[i]
         /\ FindIndex(store', a) = 0]_vars

\* the channelIds of the entries, in order
IdsOf(channels) == [i \in 1..Len(channels) |-> channels[i].channelId]

\* C28: no two entries of the store share a channelId; a create with an
\* existing id answers 409 and leaves the store as it is, a create that
\* answers 201 adds one entry under an id the store did not hold, and an
\* update or config update leaves the channelId of every entry as it was,
\* whatever channelId its body carries.
C28_UniqueChannelIds ==
  [][/\ \A i, j \in 1..Len(store') :
          store'[i].channelId = store'[j].channelId => i = j
     /\ storeResponse'.route = "create" =>
          /\ storeResponse'.status \in {201, 400, 409}
          /\ storeResponse'.status = 409 <=> FindIndex(store, storeResponse'.id) # 0
          /\ storeResponse'.status # 201 => store' = store
          /\ storeResponse'.status = 201 =>
               /\ Len(store') = Len(store) + 1
               /\ FindIndex(store', storeResponse'.id) # 0
     /\ storeResponse'.route \in {"update", "config"} =>
          /\ IdsOf(store') = IdsOf(store)
          /\ storeResponse'.status = 200 <=> FindIndex(store, storeResponse'.id) # 0]_vars

\* C28 witness: an update whose body carries the channelId of another
\* channel has been answered 200 while the store holds two channels
C28_Witness ==
  /\ storeResponse.route \in {"update", "config"}
  /\ storeResponse.status = 200
  /\ storeResponse.foreign
  /\ FindIndex(store, storeResponse.id) # 0
  /\ Len(store) >= 2

\* C29: once a connection test has completed, successfully or not, the
\* credentials in memory are the stored ones, and a request handled while
\* a test is in flight reads the stored credentials, never the ones of the
\* test.
C29_TestLeavesCredentials ==
  /\ ~iloTest.pending => iloConfig = iloStored
  /\ iloSeen.by # "" => iloSeen.config = iloStored

\* C30: the analysis in the state of useStreamAnalysis is none or the one of
\* the selected channel; the response to a fetch started for a channel
\* that is no longer selected leaves the analysis as it is; and a fetch is
\* started for the selected channel only.
C30_AnalysisOfSelectedChannel ==
  [][/\ hookAnalysis' # Absent => hookAnalysis'[1].channel = hookChannel'
     /\ \A c \in Channels :
          /\ (hookFetches'[c] < hookFetches[c] /\ c # hookChannel) =>
               hookAnalysis' = hookAnalysis
          /\ hookFetches'[c] > hookFetches[c] => c = hookChannel']_vars

====
